---- MODULE Spec2Model ----
(***************************************************************************)
(* PowerStrings: the transformer catalog, applyTransformer, the ATL codec  *)
(* (encodeATL / decodeATL) and the PowerStrings view that folds the        *)
(* applied transformers over the input.                                    *)
(*                                                                         *)
(* A JavaScript string is a sequence of one-character strings.  A value    *)
(* handled by the transformers is a record [k, s, e]: k = "string" with    *)
(* its characters in s, k = "array" with its elements in e, or             *)
(* k = "undefined" (what lodash hands out for a missing element, and the   *)
(* representative of every value that is neither a string nor an array).   *)
(***************************************************************************)
EXTENDS Integers, Sequences, FiniteSets, TLC

VARIABLES
    InputValue,           \* state.InputValue
    AppliedTransformers,  \* state.AppliedTransformers
    alerts,               \* the alert() calls of onMounted, in call order
    queryT,               \* the query parameter t of window.location ("absent" or a token)
    watchPending,         \* the AppliedTransformers watcher is queued
    mounted,              \* onMounted has run
    applyV,               \* applyTransformer harness: the value
    applyT,               \* applyTransformer harness: the invocation
    applyR,               \* applyTransformer harness: the outcome
    atlP,                 \* codec harness: the pipeline handed to encodeATL
    atlToken,             \* codec harness: the token handed to decodeATL
    atlStage,             \* codec harness: where the token came from, and "decoded"
    atlR                  \* codec harness: the outcome of decodeATL

vars == <<InputValue, AppliedTransformers, alerts, queryT,
          watchPending, mounted, applyV, applyT, applyR, atlP, atlToken,
          atlStage, atlR>>

-----------------------------------------------------------------------------
(* Values *)

Str(s) == [k |-> "string", s |-> s, e |-> <<>>]

Arr(e) == [k |-> "array", s |-> <<>>, e |-> e]

Undefined == [k |-> "undefined", s |-> <<>>, e |-> <<>>]

IsString(v) == v.k = "string"

IsArray(v) == v.k = "array"

\* The one element of a singleton set.  The({F(r) : r \in {e}}) is F(e) with e
\* evaluated once.
The(S) == CHOOSE x \in S : TRUE

\* The outcome of a call: a returned value, or a thrown Error with its message.
Return(v) == [ok |-> TRUE, v |-> v, err |-> ""]

Throw(m) == [ok |-> FALSE, v |-> Undefined, err |-> m]

-----------------------------------------------------------------------------
(* JavaScript strings: the library operations the transformers call *)

\* UTF-16 code unit of the characters the model uses.
CharCode(c) ==
    CASE c = "\n" -> 10 [] c = " " -> 32 [] c = "\"" -> 34 [] c = "$" -> 36
      [] c = "%" -> 37 [] c = "&" -> 38 [] c = "'" -> 39 [] c = "(" -> 40
      [] c = ")" -> 41 [] c = "*" -> 42 [] c = "+" -> 43 [] c = "," -> 44
      [] c = "-" -> 45 [] c = "." -> 46 [] c = "0" -> 48 [] c = "1" -> 49
      [] c = "2" -> 50 [] c = "3" -> 51 [] c = "4" -> 52 [] c = "5" -> 53
      [] c = "6" -> 54 [] c = "7" -> 55 [] c = "8" -> 56 [] c = "9" -> 57
      [] c = ":" -> 58 [] c = "A" -> 65 [] c = "B" -> 66 [] c = "C" -> 67
      [] c = "D" -> 68 [] c = "W" -> 87 [] c = "X" -> 88 [] c = "Y" -> 89
      [] c = "[" -> 91 [] c = "\\" -> 92 [] c = "]" -> 93
      [] c = "a" -> 97 [] c = "b" -> 98 [] c = "c" -> 99 [] c = "d" -> 100
      [] c = "e" -> 101 [] c = "f" -> 102 [] c = "i" -> 105 [] c = "n" -> 110
      [] c = "u" -> 117 [] c = "w" -> 119 [] c = "x" -> 120 [] c = "y" -> 121
      [] c = "{" -> 123 [] c = "}" -> 125

ToUpperCaseChar(c) ==
    CASE c = "a" -> "A" [] c = "b" -> "B" [] c = "c" -> "C" [] c = "d" -> "D"
      [] c = "w" -> "W" [] c = "x" -> "X" [] c = "y" -> "Y" [] OTHER -> c

ToLowerCaseChar(c) ==
    CASE c = "A" -> "a" [] c = "B" -> "b" [] c = "C" -> "c" [] c = "D" -> "d"
      [] c = "W" -> "w" [] c = "X" -> "x" [] c = "Y" -> "y" [] OTHER -> c

IsWhiteSpace(c) == c \in {" ", "\n"}

IsDigit(c) == c \in {"0", "1", "2", "3", "4", "5", "6", "7", "8", "9"}

DigitValue(c) == CharCode(c) - CharCode("0")

Min(a, b) == IF a < b THEN a ELSE b

Max(a, b) == IF a > b THEN a ELSE b

\* s.substring(from, to), with 0-based offsets already inside 0..s.length.
Substring(s, from, to) == IF from >= to THEN <<>> ELSE SubSeq(s, from + 1, to)

\* pat occurs in s at the 0-based offset pos.
OccursAt(s, pat, pos) ==
    /\ pos >= 0
    /\ pos + Len(pat) <= Len(s)
    /\ \A j \in 1..Len(pat) : s[pos + j] = pat[j]

\* s.indexOf(pat, from): the least offset >= from where pat occurs, or -1.
StringIndexOf(s, pat, from) ==
    LET hits == {q \in Max(from, 0)..Len(s) : OccursAt(s, pat, q)}
    IN  IF hits = {} THEN -1 ELSE CHOOSE q \in hits : \A r \in hits : q <= r

\* s.includes(pat)
Includes(s, pat) == StringIndexOf(s, pat, 0) # -1

\* Code-unit order on strings, the order of the default Array.prototype.sort.
RECURSIVE StringLess(_, _)
StringLess(a, b) ==
    IF b = <<>> THEN FALSE
    ELSE IF a = <<>> THEN TRUE
    ELSE IF a[1] # b[1] THEN CharCode(a[1]) < CharCode(b[1])
    ELSE StringLess(Tail(a), Tail(b))

\* s.trim()
RECURSIVE TrimStart(_)
TrimStart(s) ==
    IF s # <<>> /\ IsWhiteSpace(s[1]) THEN TrimStart(Tail(s)) ELSE s

RECURSIVE TrimEnd(_)
TrimEnd(s) ==
    IF s # <<>> /\ IsWhiteSpace(s[Len(s)]) THEN TrimEnd(SubSeq(s, 1, Len(s) - 1)) ELSE s

Trim(s) == TrimEnd(TrimStart(s))

ToUpperCase(s) == [j \in 1..Len(s) |-> ToUpperCaseChar(s[j])]

ToLowerCase(s) == [j \in 1..Len(s) |-> ToLowerCaseChar(s[j])]

\* A JavaScript number as the transformers see it: NaN or an integer.
NaN == [nan |-> TRUE, n |-> 0]

Num(n) == [nan |-> FALSE, n |-> n]

\* The decimal digits at the front of s, as a number (0 for none).
RECURSIVE DigitsValue(_, _)
DigitsValue(s, acc) ==
    IF s = <<>> \/ ~IsDigit(s[1]) THEN acc
    ELSE DigitsValue(Tail(s), 10 * acc + DigitValue(s[1]))

\* The conversion that gives 0 where parseInt gives NaN.
ParseIntStringOrZero(s) ==
    LET t    == TrimStart(s)
        neg  == t # <<>> /\ t[1] = "-"
        body == IF t # <<>> /\ t[1] \in {"-", "+"} THEN Tail(t) ELSE t
    IN  Num(IF neg THEN 0 - DigitsValue(body, 0) ELSE DigitsValue(body, 0))

\* parseInt(s, 10) of a string: leading white space, a sign, then digits.
ParseIntString(s) ==
    LET t    == TrimStart(s)
        neg  == t # <<>> /\ t[1] = "-"
        body == IF t # <<>> /\ t[1] \in {"-", "+"} THEN Tail(t) ELSE t
    IN  IF body = <<>> \/ ~IsDigit(body[1]) THEN NaN
        ELSE Num(IF neg THEN 0 - DigitsValue(body, 0) ELSE DigitsValue(body, 0))

\* The relative index of slice(): NaN is 0, a negative one counts from the end.
RelativeIndex(x, len) ==
    IF x.nan THEN 0
    ELSE IF x.n < 0 THEN Max(len + x.n, 0)
    ELSE Min(x.n, len)

\* The slice that takes the element at end as well.
SeqSliceInclusive(s, start, end) ==
    Substring(s, RelativeIndex(start, Len(s)), Min(RelativeIndex(end, Len(s)) + 1, Len(s)))

\* s.slice(start, end) of a string or of an array, both given as sequences.
SeqSlice(s, start, end) ==
    Substring(s, RelativeIndex(start, Len(s)), RelativeIndex(end, Len(s)))

\* s.split(sep) with a string separator.
RECURSIVE SplitFrom(_, _, _)
SplitFrom(s, sep, p) ==
    LET q == StringIndexOf(s, sep, p)
    IN  IF q = -1 THEN <<Substring(s, p, Len(s))>>
        ELSE <<Substring(s, p, q)>> \o SplitFrom(s, sep, q + Len(sep))

StringSplit(s, sep) ==
    IF sep = <<>> THEN [j \in 1..Len(s) |-> <<s[j]>>]
    ELSE SplitFrom(s, sep, 0)

\* GetSubstitution: the replacement template with $$, $&, $' and $n / $nn
\* expanded ($n beyond the number of captures stays as written).
RECURSIVE GetSubstitution(_, _, _, _, _)
GetSubstitution(matched, str, position, captures, tmpl) ==
    IF tmpl = <<>> THEN <<>>
    ELSE IF tmpl[1] # "$" \/ Len(tmpl) = 1
    THEN <<tmpl[1]>> \o GetSubstitution(matched, str, position, captures, Tail(tmpl))
    ELSE
      LET c2    == tmpl[2]
          rest2 == SubSeq(tmpl, 3, Len(tmpl))
          two   == Len(tmpl) >= 3 /\ IsDigit(tmpl[3])
          idx2  == 10 * DigitValue(c2) + DigitValue(tmpl[3])
          useTwo == two /\ idx2 <= Len(captures)
          index == IF useTwo THEN idx2 ELSE DigitValue(c2)
          restD == IF useTwo THEN SubSeq(tmpl, 4, Len(tmpl)) ELSE rest2
          ref   == IF useTwo THEN <<"$", c2, tmpl[3]>> ELSE <<"$", c2>>
      IN  IF c2 = "$"
          THEN <<"$">> \o GetSubstitution(matched, str, position, captures, rest2)
          ELSE IF c2 = "&"
          THEN matched \o GetSubstitution(matched, str, position, captures, rest2)
          ELSE IF c2 = "'"
          THEN Substring(str, Min(position + Len(matched), Len(str)), Len(str))
                 \o GetSubstitution(matched, str, position, captures, rest2)
          ELSE IF IsDigit(c2)
          THEN (IF index >= 1 /\ index <= Len(captures) THEN captures[index] ELSE ref)
                 \o GetSubstitution(matched, str, position, captures, restD)
          ELSE <<"$">> \o GetSubstitution(matched, str, position, captures, Tail(tmpl))

\* s.replaceAll(pat, repl) with a string pattern.
RECURSIVE ReplaceAllFrom(_, _, _, _, _)
ReplaceAllFrom(s, pat, repl, endOfLastMatch, from) ==
    LET position == StringIndexOf(s, pat, from)
    IN  IF position = -1 THEN Substring(s, Min(endOfLastMatch, Len(s)), Len(s))
        ELSE Substring(s, endOfLastMatch, position)
               \o GetSubstitution(pat, s, position, <<>>, repl)
               \o ReplaceAllFrom(s, pat, repl, position + Len(pat),
                                 position + Max(1, Len(pat)))

StringReplaceAll(s, pat, repl) == ReplaceAllFrom(s, pat, repl, 0, 0)

-----------------------------------------------------------------------------
(* Regular expressions, as far as the transformers build them *)

\* The characters of the class [.*+?^${}()|[\]\\] that the transformers escape.
RegexChars == {".", "*", "+", "?", "^", "$", "{", "}", "(", ")", "|", "[", "]", "\\"}

\* The escape without the g flag: only the first regex character is escaped.
EscapeFirstRegexChar(s) ==
    LET hits == {j \in 1..Len(s) : s[j] \in RegexChars}
        j    == CHOOSE x \in hits : \A y \in hits : x <= y
    IN  IF hits = {} THEN s
        ELSE SubSeq(s, 1, j - 1) \o <<"\\", s[j]>> \o SubSeq(s, j + 1, Len(s))

\* s.replace(/[.*+?^${}()|[\]\\]/g, '\\$&')
EscapeRegexChars(s) ==
    IF s = <<>> THEN <<>>
    ELSE LET F[j \in 0..Len(s)] ==
                 IF j = 0 THEN <<>>
                 ELSE F[j - 1] \o (IF s[j] \in RegexChars THEN <<"\\", s[j]>> ELSE <<s[j]>>)
         IN  F[Len(s)]

WildcardToken == <<"%", "w", "%">>

LazyGroupSource == <<"[", "^", "]", "*", "?">>

GreedyGroupSource == <<"(", "[", "^", "]", "*", ")">>

\* new RegExp(source), for the sources the model needs: an escaped character is
\* a literal, '.' is any character but a line break, [^]*? and ([^]*) are the
\* wildcards, every other character that is no regex character is a literal.
\* An item is [t |-> "lit" | "dot" | "lazy" | "greedy" | "unsupported", c].
RECURSIVE ParseRegExp(_)
ParseRegExp(src) ==
    IF src = <<>> THEN <<>>
    ELSE IF OccursAt(src, GreedyGroupSource, 0)
    THEN <<[t |-> "greedy", c |-> ""]>> \o ParseRegExp(SubSeq(src, 7, Len(src)))
    ELSE IF OccursAt(src, LazyGroupSource, 0)
    THEN <<[t |-> "lazy", c |-> ""]>> \o ParseRegExp(SubSeq(src, 6, Len(src)))
    ELSE IF src[1] = "\\" /\ Len(src) >= 2 /\ src[2] \in RegexChars
    THEN <<[t |-> "lit", c |-> src[2]]>> \o ParseRegExp(SubSeq(src, 3, Len(src)))
    ELSE IF src[1] = "."
    THEN <<[t |-> "dot", c |-> ""]>> \o ParseRegExp(Tail(src))
    ELSE IF src[1] \in RegexChars
    THEN <<[t |-> "unsupported", c |-> src[1]]>> \o ParseRegExp(Tail(src))
    ELSE <<[t |-> "lit", c |-> src[1]]>> \o ParseRegExp(Tail(src))

NoMatch == [ok |-> FALSE, end |-> 0, caps |-> <<>>]

\* The backtracking matcher: items i.. of the pattern against s from offset pos.
RECURSIVE MatchFrom(_, _, _, _)
MatchFrom(items, i, s, pos) ==
    IF i > Len(items) THEN [ok |-> TRUE, end |-> pos, caps |-> <<>>]
    ELSE
      LET it == items[i]
      IN  IF it.t = "lit"
          THEN IF pos < Len(s) /\ s[pos + 1] = it.c
               THEN MatchFrom(items, i + 1, s, pos + 1) ELSE NoMatch
          ELSE IF it.t = "dot"
          THEN IF pos < Len(s) /\ s[pos + 1] # "\n"
               THEN MatchFrom(items, i + 1, s, pos + 1) ELSE NoMatch
          ELSE IF it.t \in {"lazy", "greedy"}
          THEN LET K == {k \in pos..Len(s) : MatchFrom(items, i + 1, s, k).ok}
                   k == IF it.t = "lazy"
                        THEN CHOOSE x \in K : \A y \in K : x <= y
                        ELSE CHOOSE x \in K : \A y \in K : x >= y
                   r == MatchFrom(items, i + 1, s, k)
               IN  IF K = {} THEN NoMatch
                   ELSE IF it.t = "greedy"
                   THEN [r EXCEPT !.caps = <<Substring(s, pos, k)>> \o r.caps]
                   ELSE r
          ELSE NoMatch

\* s.split(regex): the pieces between the matches, each match's captures
\* spliced in after the piece that precedes it.
RECURSIVE RegExpSplitLoop(_, _, _, _)
RegExpSplitLoop(items, s, p, q) ==
    IF q >= Len(s) THEN <<Substring(s, p, Len(s))>>
    ELSE LET z == MatchFrom(items, 1, s, q)
             e == Min(z.end, Len(s))
         IN  IF ~z.ok \/ e = p THEN RegExpSplitLoop(items, s, p, q + 1)
             ELSE <<Substring(s, p, q)>> \o z.caps \o RegExpSplitLoop(items, s, e, e)

RegExpSplit(s, items) ==
    IF s = <<>>
    THEN IF MatchFrom(items, 1, s, 0).ok THEN <<>> ELSE <<s>>
    ELSE RegExpSplitLoop(items, s, 0, 0)

\* regex.exec from lastIndex: the leftmost offset where the pattern matches.
RegExpExec(items, s, lastIndex) ==
    LET hits == {q \in lastIndex..Len(s) : MatchFrom(items, 1, s, q).ok}
        q    == CHOOSE x \in hits : \A y \in hits : x <= y
    IN  IF hits = {} THEN [ok |-> FALSE, index |-> 0, end |-> 0, caps |-> <<>>]
        ELSE [ok |-> TRUE, index |-> q, end |-> MatchFrom(items, 1, s, q).end,
              caps |-> MatchFrom(items, 1, s, q).caps]

\* s.replace(regex, repl) with the g flag.
RECURSIVE RegExpReplaceLoop(_, _, _, _, _)
RegExpReplaceLoop(items, s, repl, nextSourcePosition, lastIndex) ==
    LET m == RegExpExec(items, s, lastIndex)
    IN  IF ~m.ok THEN Substring(s, Min(nextSourcePosition, Len(s)), Len(s))
        ELSE Substring(s, nextSourcePosition, m.index)
               \o GetSubstitution(Substring(s, m.index, m.end), s, m.index, m.caps, repl)
               \o RegExpReplaceLoop(items, s, repl, m.end,
                                    IF m.end = m.index THEN m.end + 1 ELSE m.end)

\* The replace without the g flag: the first match only.
RegExpReplaceFirst(s, items, repl) ==
    LET m == RegExpExec(items, s, 0)
    IN  IF ~m.ok THEN s
        ELSE Substring(s, 0, m.index)
               \o GetSubstitution(Substring(s, m.index, m.end), s, m.index, m.caps, repl)
               \o Substring(s, m.end, Len(s))

RegExpReplace(s, items, repl) == RegExpReplaceLoop(items, s, repl, 0, 0)

-----------------------------------------------------------------------------
(* JavaScript arrays: the library operations the transformers call *)

UndefinedString == <<"u", "n", "d", "e", "f", "i", "n", "e", "d">>

RECURSIVE JSToString(_)
RECURSIVE ArrayJoin(_, _)
\* String(v): an array is its elements joined by commas.
JSToString(v) ==
    IF IsString(v) THEN v.s
    ELSE IF IsArray(v) THEN ArrayJoin(v.e, <<",">>)
    ELSE UndefinedString

\* e.join(sep): an undefined element contributes the empty string.
ArrayJoin(e, sep) ==
    IF e = <<>> THEN <<>>
    ELSE LET first == IF e[1].k = "undefined" THEN <<>> ELSE JSToString(e[1])
         IN  IF Len(e) = 1 THEN first ELSE first \o sep \o ArrayJoin(Tail(e), sep)

\* parseInt(v, 10) of any value: the value is converted to a string first.
ParseInt(v) == ParseIntString(JSToString(v))

\* e.reverse()
ArrayReverse(e) == [j \in 1..Len(e) |-> e[Len(e) + 1 - j]]

\* The comparison of e.sort(): the default one orders by the code units of the
\* string conversions and puts undefined last; the numeric one is the
\* comparator sort.Func passes.
SortBefore(a, b, numeric) ==
    IF numeric THEN ParseInt(a).n < ParseInt(b).n
    ELSE /\ a.k # "undefined"
         /\ (b.k = "undefined" \/ StringLess(JSToString(a), JSToString(b)))

\* e.sort(...): the stable sort by SortBefore.
ArraySort(e, numeric) ==
    LET rank(i) == Cardinality({j \in 1..Len(e) :
                       \/ SortBefore(e[j], e[i], numeric)
                       \/ (~SortBefore(e[i], e[j], numeric) /\ j < i)}) + 1
    IN  [r \in 1..Len(e) |-> e[CHOOSE i \in 1..Len(e) : rank(i) = r]]

\* What pullAt leaves in the array: the elements at the other positions.
PullAtRemaining(e, indexes) ==
    LET pulled == {indexes[j].n + 1 : j \in {i \in 1..Len(indexes) : ~indexes[i].nan}}
        F[j \in 0..Len(e)] ==
            IF j = 0 THEN <<>>
            ELSE IF j \in pulled THEN F[j - 1] ELSE Append(F[j - 1], e[j])
    IN  F[Len(e)]

\* lodash pullAt(array, indexes): the array of the removed elements, one per
\* index in the order given, undefined for an index that names no element.
PullAt(e, indexes) ==
    [j \in 1..Len(indexes) |->
        IF ~indexes[j].nan /\ indexes[j].n >= 0 /\ indexes[j].n < Len(e)
        THEN e[indexes[j].n + 1] ELSE Undefined]

-----------------------------------------------------------------------------
(* The catalog *)

PSTransformers == <<
    [ID |-> <<"s", "p", "l", "i", "t">>, Target |-> "string", Return |-> "array",
     Name |-> "Split",
     Description |-> "Split the string at the ocurrencies of the given Separator.",
     Icon |-> "cut", Func |-> "split",
     Args |-> <<[Name |-> "Separator", Placeholder |-> "Use %w% as wildcard"]>>],
    [ID |-> <<"r", "e", "p", "l", "a", "c", "e">>, Target |-> "string", Return |-> "string",
     Name |-> "Replace",
     Description |-> "Replace all ocurrencies of Pattern with the Replacement content",
     Icon |-> "find_replace", Func |-> "replace",
     Args |-> <<[Name |-> "Pattern", Placeholder |-> "Use %w% as wildcard"],
                [Name |-> "Replacement", Placeholder |-> "Use $& for matched and $n"]>>],
    [ID |-> <<"t", "r", "i", "m">>, Target |-> "string", Return |-> "string",
     Name |-> "Trim",
     Description |-> "Remove leading and trailing spaces",
     Icon |-> "space_bar", Func |-> "trim", Args |-> <<>>],
    [ID |-> <<"l", "o", "w", "e", "r", "_", "c", "a", "s", "e">>,
     Target |-> "string", Return |-> "string",
     Name |-> "Lower Case",
     Description |-> "Convert the string to lower case",
     Icon |-> "arrow_downward", Func |-> "lower_case", Args |-> <<>>],
    [ID |-> <<"u", "p", "p", "e", "r", "_", "c", "a", "s", "e">>,
     Target |-> "string", Return |-> "string",
     Name |-> "Upper Case",
     Description |-> "Convert the string to upper case",
     Icon |-> "arrow_upward", Func |-> "upper_case", Args |-> <<>>],
    [ID |-> <<"s", "l", "i", "c", "e">>, Target |-> "string", Return |-> "string",
     Name |-> "Slice",
     Description |-> "Slice a section of the string, between Start and End indexes.",
     Icon |-> "carpenter", Func |-> "slice",
     Args |-> <<[Name |-> "Start", Placeholder |-> ""],
                [Name |-> "End (exclusive)", Placeholder |-> ""]>>],
    [ID |-> <<"s", "l", "i", "c", "e", "_", "a", "r", "r", "a", "y">>,
     Target |-> "array", Return |-> "array",
     Name |-> "Slice Array",
     Description |-> "Slice a section of the array, at the given Indexes.",
     Icon |-> "carpenter", Func |-> "slice_array",
     Args |-> <<[Name |-> "Indexes to slice (use , for lists and - for intervals)",
                 Placeholder |-> "List e.g.: 0,3,5 Interval e.g.: 0-5"]>>],
    [ID |-> <<"r", "e", "v", "e", "r", "s", "e">>, Target |-> "array", Return |-> "array",
     Name |-> "Reverse",
     Description |-> "Reverse the array.",
     Icon |-> "restart_alt", Func |-> "reverse", Args |-> <<>>],
    [ID |-> <<"s", "o", "r", "t">>, Target |-> "array", Return |-> "array",
     Name |-> "Sort",
     Description |-> "Sort the array.",
     Icon |-> "sort", Func |-> "sort", Args |-> <<>>],
    [ID |-> <<"j", "o", "i", "n">>, Target |-> "array", Return |-> "string",
     Name |-> "Join",
     Description |-> "Adds all the elements of the array into a string, separated by the specified Separator.",
     Icon |-> "join", Func |-> "join",
     Args |-> <<[Name |-> "Separator", Placeholder |-> ""]>>] >>

\* The i-th argument a Func receives: undefined past the supplied ones.
Argument(args, i) == IF i <= Len(args) THEN Str(args[i]) ELSE Undefined

TypeError == "TypeError: Cannot read properties of undefined"

\* The split whose wildcard is the greedy capturing group of replace.
SplitFuncCapturing(v, args) ==
    LET sep == Argument(args, 1)
    IN  IF ~IsString(sep) THEN Throw(TypeError)
        ELSE LET sepRegex == StringReplaceAll(EscapeRegexChars(sep.s), WildcardToken,
                                              GreedyGroupSource)
                 pieces   == IF Includes(sep.s, WildcardToken)
                             THEN RegExpSplit(v.s, ParseRegExp(sepRegex))
                             ELSE StringSplit(v.s, sep.s)
             IN  Return(Arr([j \in 1..Len(pieces) |-> Str(pieces[j])]))

\* split: (v, sep)
SplitFunc(v, args) ==
    LET sep == Argument(args, 1)
    IN  IF ~IsString(sep) THEN Throw(TypeError)
        ELSE IF Includes(sep.s, WildcardToken)
        THEN LET sepEscaped == EscapeRegexChars(sep.s)
                 sepRegex   == StringReplaceAll(sepEscaped, WildcardToken, LazyGroupSource)
                 pieces     == RegExpSplit(v.s, ParseRegExp(sepRegex))
             IN  Return(Arr([j \in 1..Len(pieces) |-> Str(pieces[j])]))
        ELSE LET pieces == StringSplit(v.s, sep.s)
             IN  Return(Arr([j \in 1..Len(pieces) |-> Str(pieces[j])]))

\* replace: (v, pattern, replacement)
ReplaceFunc(v, args) ==
    LET pattern     == Argument(args, 1)
        replacement == JSToString(Argument(args, 2))
    IN  IF ~IsString(pattern) THEN Throw(TypeError)
        ELSE IF Includes(pattern.s, WildcardToken)
        THEN LET patEscaped == EscapeRegexChars(pattern.s)
                 patRegex   == StringReplaceAll(patEscaped, WildcardToken, GreedyGroupSource)
             IN  Return(Str(RegExpReplace(v.s, ParseRegExp(patRegex), replacement)))
        ELSE Return(Str(StringReplaceAll(v.s, pattern.s, replacement)))

TrimFunc(v, args) == Return(Str(Trim(v.s)))

LowerCaseFunc(v, args) == Return(Str(ToLowerCase(v.s)))

UpperCaseFunc(v, args) == Return(Str(ToUpperCase(v.s)))

\* The slice by String.prototype.substring: a negative offset is 0 and the two
\* offsets are swapped when the first is the larger.
SliceFuncSubstring(v, args) ==
    LET s  == ParseInt(Argument(args, 1))
        e  == ParseInt(Argument(args, 2))
        cs == IF s.nan THEN 0 ELSE Max(0, Min(s.n, Len(v.s)))
        ce == IF e.nan THEN 0 ELSE Max(0, Min(e.n, Len(v.s)))
    IN  Return(Str(Substring(v.s, Min(cs, ce), Max(cs, ce))))

\* slice: (v, start, end)
SliceFunc(v, args) ==
    LET s == ParseInt(Argument(args, 1))
        e == ParseInt(Argument(args, 2))
    IN  Return(Str(SeqSlice(v.s, s, e)))

\* indexes.replaceAll(' ', '').replaceAll(/\r\n|\n/g, '')
Normalize(indexes) == SelectSeq(indexes, LAMBDA c : c \notin {" ", "\n"})

\* slice_array: (v, indexes)
SliceArrayFunc(v, args) ==
    LET indexes == Argument(args, 1)
    IN  IF ~IsString(indexes) THEN Throw(TypeError)
        ELSE
          LET normalized == Normalize(indexes.s)
              dashSpt    == StringSplit(normalized, <<"-">>)
              commaSpt   == StringSplit(normalized, <<",">>)
              idx        == ParseIntString(normalized)
          IN  IF Includes(normalized, <<"-">>)
              THEN IF Len(dashSpt) # 2 THEN Return(v)
                   ELSE Return(Arr(SeqSlice(v.e, ParseIntString(dashSpt[1]),
                                            ParseIntString(dashSpt[2]))))
              ELSE IF Includes(normalized, <<",">>)
              THEN Return(Arr(PullAt(v.e,
                       [j \in 1..Len(commaSpt) |-> ParseIntString(commaSpt[j])])))
              ELSE IF idx.nan THEN Return(v)
              ELSE Return(Arr(PullAt(v.e, <<idx>>)))

\* The call that hands back the object it was given: no copy is made.
CloneDeepShared(heap, ref) == [heap |-> heap, ref |-> ref]

\* cloneDeep(v): a new object, "copy", with the elements of the object ref.
CloneDeep(heap, ref) ==
    [heap |-> [heap EXCEPT !["copy"] = heap[ref]], ref |-> "copy"]

\* ret.every(...) and the sort it selects.
SortInPlace(e) == ArraySort(e, \A j \in 1..Len(e) : ~ParseInt(e[j]).nan)

\* let ret = cloneDeep(v); ret.reverse() or ret.sort(...); return ret -- over
\* the two objects of the call, the array received and the copy: what is
\* returned and what the received array holds afterwards.
CallOnCopy(e, method) ==
    LET h0 == [o \in {"received", "copy"} |-> IF o = "received" THEN e ELSE <<>>]
        c  == CloneDeep(h0, "received")
        h1 == [c.heap EXCEPT ![c.ref] = IF method = "reverse" THEN ArrayReverse(@)
                                        ELSE SortInPlace(@)]
    IN  [ret |-> h1[c.ref], received |-> h1["received"]]

ReverseFunc(v, args) ==
    Return(Arr(CallOnCopy(v.e, "reverse").ret))

\* The sort that never takes the numeric comparator.
SortFuncDefault(v, args) == Return(Arr(ArraySort(v.e, FALSE)))

SortFunc(v, args) == Return(Arr(CallOnCopy(v.e, "sort").ret))

\* join: (v, sep); join(undefined) separates by a comma.
JoinFunc(v, args) ==
    LET sep == Argument(args, 1)
    IN  Return(Str(ArrayJoin(v.e, IF IsString(sep) THEN sep.s ELSE <<",">>)))

\* t.Func(v, ...args) for a definition t of the catalog.
Func(t, v, args) ==
    CASE t.Func = "split"       -> SplitFunc(v, args)
      [] t.Func = "replace"     -> ReplaceFunc(v, args)
      [] t.Func = "trim"        -> TrimFunc(v, args)
      [] t.Func = "lower_case"  -> LowerCaseFunc(v, args)
      [] t.Func = "upper_case"  -> UpperCaseFunc(v, args)
      [] t.Func = "slice"       -> SliceFunc(v, args)
      [] t.Func = "slice_array" -> SliceArrayFunc(v, args)
      [] t.Func = "reverse"     -> ReverseFunc(v, args)
      [] t.Func = "sort"        -> SortFunc(v, args)
      [] t.Func = "join"        -> JoinFunc(v, args)

\* The parameters of join.Func were it (v) => v.join().
FuncParametersBareJoin(t) ==
    CASE t.Func = "split"       -> <<"sep">>
      [] t.Func = "replace"     -> <<"pattern", "replacement">>
      [] t.Func = "slice"       -> <<"start", "end">>
      [] t.Func = "slice_array" -> <<"indexes">>
      [] OTHER                  -> <<>>

\* The parameters each Func declares after the value v.
FuncParameters(t) ==
    CASE t.Func = "split"       -> <<"sep">>
      [] t.Func = "replace"     -> <<"pattern", "replacement">>
      [] t.Func = "slice"       -> <<"start", "end">>
      [] t.Func = "slice_array" -> <<"indexes">>
      [] t.Func = "join"        -> <<"sep">>
      [] OTHER                  -> <<>>

\* The value a Func received, as it is once the call has returned: reverse and
\* sort work on a copy, the other calls change no array in place but one of
\* their own making.
ReceivedAfter(t, v, args) ==
    CASE t.Func = "reverse" -> Arr(CallOnCopy(v.e, "reverse").received)
      [] t.Func = "sort"    -> Arr(CallOnCopy(v.e, "sort").received)
      [] OTHER              -> v

-----------------------------------------------------------------------------
(* JSON: JSON.stringify and JSON.parse over strings of characters *)

\* A JSON value: [j, s, e, keys].  A string has its characters in s, a number
\* its digits in s, an array its elements in e, an object its member names in
\* keys and their values, in the same order, in e.
JString(s) == [j |-> "string", s |-> s, e |-> <<>>, keys |-> <<>>]

JNumber(s) == [j |-> "number", s |-> s, e |-> <<>>, keys |-> <<>>]

JNull == [j |-> "null", s |-> <<>>, e |-> <<>>, keys |-> <<>>]

JArray(e) == [j |-> "array", s |-> <<>>, e |-> e, keys |-> <<>>]

JObject(keys, e) == [j |-> "object", s |-> <<>>, e |-> e, keys |-> keys]

\* The string between double quotes, nothing escaped.
QuoteUnescaped(s) == <<"\"">> \o s \o <<"\"">>

\* QuoteJSONString: the string between double quotes, with the quote, the
\* backslash and the line break escaped.
QuoteJSONString(s) ==
    LET F[j \in 0..Len(s)] ==
            IF j = 0 THEN <<>>
            ELSE F[j - 1] \o (CASE s[j] = "\"" -> <<"\\", "\"">>
                                [] s[j] = "\\" -> <<"\\", "\\">>
                                [] s[j] = "\n" -> <<"\\", "n">>
                                [] OTHER -> <<s[j]>>)
    IN  <<"\"">> \o F[Len(s)] \o <<"\"">>

RECURSIVE JSONStringify(_)
RECURSIVE StringifyElements(_)
RECURSIVE StringifyMembers(_, _)
\* JSON.stringify(x), without indentation.
JSONStringify(x) ==
    CASE x.j = "string" -> QuoteJSONString(x.s)
      [] x.j = "number" -> x.s
      [] x.j = "null"   -> <<"n", "u", "l", "l">>
      [] x.j = "array"  -> <<"[">> \o StringifyElements(x.e) \o <<"]">>
      [] x.j = "object" -> <<"{">> \o StringifyMembers(x.keys, x.e) \o <<"}">>

StringifyElements(e) ==
    IF e = <<>> THEN <<>>
    ELSE IF Len(e) = 1 THEN JSONStringify(e[1])
    ELSE JSONStringify(e[1]) \o <<",">> \o StringifyElements(Tail(e))

StringifyMembers(keys, e) ==
    IF keys = <<>> THEN <<>>
    ELSE LET m == QuoteJSONString(keys[1]) \o <<":">> \o JSONStringify(e[1])
         IN  IF Len(keys) = 1 THEN m
             ELSE m \o <<",">> \o StringifyMembers(Tail(keys), Tail(e))

\* The lexer of JSON.parse.  A lexeme is [lx, s]: lx is the punctuation mark
\* itself, "string" (s: the unescaped characters), "number" (s: the digits),
\* "null", or "error" for text that is no JSON token.  The escapes \b and
\* \uXXXX are outside the alphabet of the model.
LexError == <<[lx |-> "error", s |-> <<>>]>>

\* The string literal whose opening quote has been read: [ok, s, rest].
RECURSIVE LexString(_, _)
LexString(text, acc) ==
    IF text = <<>> THEN [ok |-> FALSE, s |-> <<>>, rest |-> <<>>]
    ELSE IF text[1] = "\"" THEN [ok |-> TRUE, s |-> acc, rest |-> Tail(text)]
    ELSE IF text[1] \in {"\n", "\t", "\r", "\f"}
    THEN [ok |-> FALSE, s |-> <<>>, rest |-> <<>>]
    ELSE IF text[1] = "\\"
    THEN IF Len(text) < 2 THEN [ok |-> FALSE, s |-> <<>>, rest |-> <<>>]
         ELSE LET c == text[2]
                  rest == SubSeq(text, 3, Len(text))
              IN  CASE c \in {"\"", "\\", "/"} -> LexString(rest, Append(acc, c))
                    [] c = "n" -> LexString(rest, Append(acc, "\n"))
                    [] c = "t" -> LexString(rest, Append(acc, "\t"))
                    [] c = "r" -> LexString(rest, Append(acc, "\r"))
                    [] c = "f" -> LexString(rest, Append(acc, "\f"))
                    [] OTHER -> [ok |-> FALSE, s |-> <<>>, rest |-> <<>>]
    ELSE LexString(Tail(text), Append(acc, text[1]))

\* The digits at the front of text: [s, rest].
RECURSIVE LexDigits(_, _)
LexDigits(text, acc) ==
    IF text # <<>> /\ IsDigit(text[1]) THEN LexDigits(Tail(text), Append(acc, text[1]))
    ELSE [s |-> acc, rest |-> text]

RECURSIVE JSONLex(_)
JSONLex(text) ==
    IF text = <<>> THEN <<>>
    ELSE IF text[1] \in {" ", "\n", "\t", "\r"} THEN JSONLex(Tail(text))
    ELSE IF text[1] \in {"[", "]", "{", "}", ":", ","}
    THEN <<[lx |-> text[1], s |-> <<>>]>> \o JSONLex(Tail(text))
    ELSE IF text[1] = "\""
    THEN LET r == LexString(Tail(text), <<>>)
         IN  IF r.ok THEN <<[lx |-> "string", s |-> r.s]>> \o JSONLex(r.rest)
             ELSE LexError
    ELSE IF OccursAt(text, <<"n", "u", "l", "l">>, 0)
    THEN <<[lx |-> "null", s |-> <<>>]>> \o JSONLex(SubSeq(text, 5, Len(text)))
    ELSE IF IsDigit(text[1]) \/ (text[1] = "-" /\ Len(text) >= 2 /\ IsDigit(text[2]))
    THEN LET neg == text[1] = "-"
             r   == LexDigits(IF neg THEN Tail(text) ELSE text, <<>>)
         IN  IF Len(r.s) > 1 /\ r.s[1] = "0" THEN LexError
             ELSE <<[lx |-> "number", s |-> (IF neg THEN <<"-">> ELSE <<>>) \o r.s]>>
                    \o JSONLex(r.rest)
    ELSE LexError

ParseError == [ok |-> FALSE, v |-> JNull, next |-> 0]

RECURSIVE ParseValue(_, _)
RECURSIVE ParseElements(_, _, _)
RECURSIVE ParseMembers(_, _, _, _)
\* The JSON value that starts at lexeme i: [ok, v, next].
ParseValue(toks, i) ==
    IF i > Len(toks) THEN ParseError
    ELSE
      LET tk == toks[i]
      IN  CASE tk.lx = "string" -> [ok |-> TRUE, v |-> JString(tk.s), next |-> i + 1]
            [] tk.lx = "number" -> [ok |-> TRUE, v |-> JNumber(tk.s), next |-> i + 1]
            [] tk.lx = "null"   -> [ok |-> TRUE, v |-> JNull, next |-> i + 1]
            [] tk.lx = "["      ->
                 IF i + 1 <= Len(toks) /\ toks[i + 1].lx = "]"
                 THEN [ok |-> TRUE, v |-> JArray(<<>>), next |-> i + 2]
                 ELSE ParseElements(toks, i + 1, <<>>)
            [] tk.lx = "{"      ->
                 IF i + 1 <= Len(toks) /\ toks[i + 1].lx = "}"
                 THEN [ok |-> TRUE, v |-> JObject(<<>>, <<>>), next |-> i + 2]
                 ELSE ParseMembers(toks, i + 1, <<>>, <<>>)
            [] OTHER -> ParseError

\* The elements of an array, the first of them at lexeme i.
ParseElements(toks, i, acc) ==
    LET r == ParseValue(toks, i)
    IN  IF ~r.ok \/ r.next > Len(toks) THEN ParseError
        ELSE IF toks[r.next].lx = "]"
        THEN [ok |-> TRUE, v |-> JArray(Append(acc, r.v)), next |-> r.next + 1]
        ELSE IF toks[r.next].lx = ","
        THEN ParseElements(toks, r.next + 1, Append(acc, r.v))
        ELSE ParseError

\* The members of an object, the first name at lexeme i.
ParseMembers(toks, i, keys, acc) ==
    IF i + 1 > Len(toks) \/ toks[i].lx # "string" \/ toks[i + 1].lx # ":"
    THEN ParseError
    ELSE LET r == ParseValue(toks, i + 2)
         IN  IF ~r.ok \/ r.next > Len(toks) THEN ParseError
             ELSE IF toks[r.next].lx = "}"
             THEN [ok |-> TRUE, v |-> JObject(Append(keys, toks[i].s), Append(acc, r.v)),
                   next |-> r.next + 1]
             ELSE IF toks[r.next].lx = ","
             THEN ParseMembers(toks, r.next + 1, Append(keys, toks[i].s), Append(acc, r.v))
             ELSE ParseError

\* JSON.parse(text): [ok, v]; ok is FALSE where JSON.parse throws a SyntaxError.
JSONParse(text) ==
    LET toks == JSONLex(text)
        r    == ParseValue(toks, 1)
    IN  IF \E i \in 1..Len(toks) : toks[i].lx = "error" THEN [ok |-> FALSE, v |-> JNull]
        ELSE IF r.ok /\ r.next = Len(toks) + 1 THEN [ok |-> TRUE, v |-> r.v]
        ELSE [ok |-> FALSE, v |-> JNull]

\* o[key] of a parsed value: [defined, v].  Only an object has members; of
\* members with the same name the last one counts.
GetMember(o, key) ==
    LET hits == IF o.j = "object" THEN {i \in 1..Len(o.keys) : o.keys[i] = key} ELSE {}
    IN  IF hits = {} THEN [defined |-> FALSE, v |-> JNull]
        ELSE [defined |-> TRUE, v |-> o.e[CHOOSE i \in hits : \A h \in hits : i >= h]]

-----------------------------------------------------------------------------
(* applyTransformer *)

\* The outcome of applyTransformer: [ok, v, err, calls].  calls lists, in call
\* order, the values that t.Transformer.Func was invoked on.
Thrown(m, calls) == [ok |-> FALSE, v |-> Undefined, err |-> m, calls |-> calls]

\* t.Transformer.Func(v, ...t.Arguments)
CallFunc(v, t) ==
    The({ [ok |-> r.ok, v |-> r.v, err |-> r.err, calls |-> <<v>>] :
          r \in {Func(t.Transformer, v, t.Arguments)} })

\* v.length > 0 && typeof v[0] === 'string'
FirstChildIsString(v) == Len(v.e) > 0 /\ IsString(v.e[1])

RECURSIVE applyTransformer(_, _)
RECURSIVE MapApply(_, _, _, _, _)
\* v.map((vm) => applyTransformer(vm, t)): the elements from the j-th on, with
\* the results so far in acc; the first element that throws ends the map.
MapApply(e, t, j, acc, calls) ==
    IF j > Len(e) THEN [ok |-> TRUE, v |-> Arr(acc), err |-> "", calls |-> calls]
    ELSE The({ IF ~r.ok THEN Thrown(r.err, calls \o r.calls)
               ELSE MapApply(e, t, j + 1, Append(acc, r.v), calls \o r.calls) :
               r \in {applyTransformer(e[j], t)} })

\* applyTransformer without the check of a string against an array target.
applyTransformerUnchecked(v, t) ==
    IF ~IsString(v) /\ ~IsArray(v)
    THEN Thrown("applyTransformer: v is not a string nor array", <<>>)
    ELSE IF IsArray(v) /\ t.Transformer.Target = "string"
    THEN MapApply(v.e, t, 1, <<>>, <<>>)
    ELSE IF IsArray(v) /\ t.Transformer.Target = "array"
    THEN IF FirstChildIsString(v) THEN CallFunc(v, t)
         ELSE MapApply(v.e, t, 1, <<>>, <<>>)
    ELSE CallFunc(v, t)

\* applyTransformer that looks for the innermost arrays whatever the target.
applyTransformerRowsOnly(v, t) ==
    IF ~IsString(v) /\ ~IsArray(v)
    THEN Thrown("applyTransformer: v is not a string nor array", <<>>)
    ELSE IF IsString(v) /\ t.Transformer.Target = "array"
    THEN Thrown("applyTransformer: a targeted array transformer cannot be applied on string", <<>>)
    ELSE IF IsArray(v)
    THEN IF FirstChildIsString(v) THEN CallFunc(v, t)
         ELSE MapApply(v.e, t, 1, <<>>, <<>>)
    ELSE CallFunc(v, t)

\* applyTransformer that hands every array to an array-targeted Func as it is.
applyTransformerTopLevel(v, t) ==
    IF ~IsString(v) /\ ~IsArray(v)
    THEN Thrown("applyTransformer: v is not a string nor array", <<>>)
    ELSE IF IsString(v) /\ t.Transformer.Target = "array"
    THEN Thrown("applyTransformer: a targeted array transformer cannot be applied on string", <<>>)
    ELSE IF IsArray(v) /\ t.Transformer.Target = "string"
    THEN MapApply(v.e, t, 1, <<>>, <<>>)
    ELSE CallFunc(v, t)

applyTransformer(v, t) ==
    IF ~IsString(v) /\ ~IsArray(v)
    THEN Thrown("applyTransformer: v is not a string nor array", <<>>)
    ELSE IF IsString(v) /\ t.Transformer.Target = "array"
    THEN Thrown("applyTransformer: a targeted array transformer cannot be applied on string", <<>>)
    ELSE IF IsArray(v) /\ t.Transformer.Target = "string"
    THEN MapApply(v.e, t, 1, <<>>, <<>>)
    ELSE IF IsArray(v) /\ t.Transformer.Target = "array"
    THEN IF FirstChildIsString(v) THEN CallFunc(v, t)
         ELSE MapApply(v.e, t, 1, <<>>, <<>>)
    ELSE CallFunc(v, t)

-----------------------------------------------------------------------------
(* The ATL codec *)

\* A PSTransformerWithArguments.
Invocation(tf, args) == [Transformer |-> tf, Arguments |-> args]

KeyI == <<"i">>

KeyA == <<"a">>

\* The record with a third member, n, beside i and a.
EncodeRecordThreeMembers(t) ==
    JObject(<<KeyI, <<"n">>, KeyA>>,
            <<JString(t.Transformer.ID),
              JString(t.Transformer.ID),
              JArray([j \in 1..Len(t.Arguments) |-> JString(t.Arguments[j])])>>)

\* The record encodeATL pushes for one applied transformer.
EncodeRecord(t) ==
    JObject(<<KeyI, KeyA>>,
            <<JString(t.Transformer.ID),
              JArray([j \in 1..Len(t.Arguments) |-> JString(t.Arguments[j])])>>)

encodeATL(ts) == JSONStringify(JArray([k \in 1..Len(ts) |-> EncodeRecord(ts[k])]))

\* PSTransformers.find((pst) => pst.ID === id): the index of the first
\* definition with that ID, 0 for undefined.
FindTransformer(id) ==
    LET hits == {k \in 1..Len(PSTransformers) :
                    id.j = "string" /\ PSTransformers[k].ID = id.s}
    IN  IF hits = {} THEN 0 ELSE CHOOSE k \in hits : \A h \in hits : k <= h

\* The forEach callback without the check of the arguments' types.
DecodeRecordAnyArguments(t) ==
    LET i  == GetMember(t, KeyI)
        a  == GetMember(t, KeyA)
        tf == FindTransformer(i.v)
    IN  IF ~i.defined \/ ~(a.defined /\ a.v.j = "array")
        THEN [ok |-> FALSE, v |-> <<>>,
              err |-> "decodeAppliedTransformerList: transformer id or args malformed"]
        ELSE IF tf = 0
        THEN [ok |-> FALSE, v |-> <<>>,
              err |-> "decodeAppliedTransformerList: transformer not found"]
        ELSE [ok |-> TRUE, err |-> "",
              v |-> Invocation(PSTransformers[tf],
                               [j \in 1..Len(a.v.e) |-> a.v.e[j].s])]

\* The outcome of the forEach callback of decodeATL on one record:
\* [ok, v, err], v the invocation it pushes.
DecodeRecord(t) ==
    LET i  == GetMember(t, KeyI)
        a  == GetMember(t, KeyA)
        tf == FindTransformer(i.v)
    IN  IF ~i.defined \/ ~(a.defined /\ a.v.j = "array")
        THEN [ok |-> FALSE, v |-> <<>>,
              err |-> "decodeAppliedTransformerList: transformer id or args malformed"]
        ELSE IF ~(\A j \in 1..Len(a.v.e) : a.v.e[j].j = "string")
        THEN [ok |-> FALSE, v |-> <<>>,
              err |-> "decodeAppliedTransformerList: transformer has non-string argument"]
        ELSE IF tf = 0
        THEN [ok |-> FALSE, v |-> <<>>,
              err |-> "decodeAppliedTransformerList: transformer not found"]
        ELSE [ok |-> TRUE, err |-> "",
              v |-> Invocation(PSTransformers[tf],
                               [j \in 1..Len(a.v.e) |-> a.v.e[j].s])]

\* The forEach that stops at a bad record and keeps what it has pushed.
DecodeLoopPartial(p, k, ret) ==
    LET F[j \in k..(Len(p) + 1)] ==
            IF j > Len(p) \/ ~DecodeRecord(p[j]).ok THEN <<>>
            ELSE <<DecodeRecord(p[j]).v>> \o F[j + 1]
    IN  [ok |-> TRUE, v |-> ret \o F[k], err |-> ""]

\* p.forEach(...): the records from the k-th on, with ret so far.
RECURSIVE DecodeLoop(_, _, _)
DecodeLoop(p, k, ret) ==
    IF k > Len(p) THEN [ok |-> TRUE, v |-> ret, err |-> ""]
    ELSE LET r == DecodeRecord(p[k])
         IN  IF ~r.ok THEN [ok |-> FALSE, v |-> <<>>, err |-> r.err]
             ELSE DecodeLoop(p, k + 1, Append(ret, r.v))

\* decodeATL(t): [ok, v, err]; ok is FALSE where it throws.
decodeATL(t) ==
    LET p == JSONParse(t)
    IN  IF ~p.ok THEN [ok |-> FALSE, v |-> <<>>, err |-> "SyntaxError"]
        ELSE IF p.v.j # "array"
        THEN [ok |-> FALSE, v |-> <<>>,
              err |-> "decodeAppliedTransformerList: parsed value is not array"]
        ELSE DecodeLoop(p.v.e, 1, <<>>)

-----------------------------------------------------------------------------
(* The view: outputValue *)

\* The alert of outputValue's catch block, naming the transformer.
ApplyAlert(t, e) == [kind |-> "apply", name |-> t.Transformer.Name, error |-> e]

\* The alert of onMounted's catch block.
LoadAlert(e) == [kind |-> "load", name |-> "", error |-> e]

\* What the forEach callback of outputValue did at one step: the value that
\* entered it, and whether applyTransformer threw.
Step(v, threw) == [entered |-> v, threw |-> threw]

RECURSIVE ChainLoop(_, _, _, _, _)
\* The forEach that stops at the first step that throws.
ChainLoopAbort(ts, k, v, reported, steps) ==
    IF k > Len(ts) THEN [v |-> v, alerts |-> reported, steps |-> steps]
    ELSE The({ IF r.ok THEN ChainLoop(ts, k + 1, r.v, reported, Append(steps, Step(v, FALSE)))
               ELSE [v |-> v, alerts |-> Append(reported, ApplyAlert(ts[k], r.err)),
                     steps |-> Append(steps, Step(v, TRUE))] :
               r \in {applyTransformer(v, ts[k])} })

\* The forEach whose alert names the first applied transformer, whichever step
\* threw.
ChainLoopFirstName(ts, k, v, reported, steps) ==
    IF k > Len(ts) THEN [v |-> v, alerts |-> reported, steps |-> steps]
    ELSE The({ IF r.ok THEN ChainLoop(ts, k + 1, r.v, reported, Append(steps, Step(v, FALSE)))
               ELSE ChainLoop(ts, k + 1, v, Append(reported, ApplyAlert(ts[1], r.err)),
                              Append(steps, Step(v, TRUE))) :
               r \in {applyTransformer(v, ts[k])} })

\* state.AppliedTransformers.forEach(...) of outputValue: the steps from the
\* k-th on, v the value so far, reported the alerts raised so far and steps
\* what the steps so far did.
ChainLoop(ts, k, v, reported, steps) ==
    IF k > Len(ts) THEN [v |-> v, alerts |-> reported, steps |-> steps]
    ELSE The({ IF r.ok THEN ChainLoop(ts, k + 1, r.v, reported, Append(steps, Step(v, FALSE)))
               ELSE ChainLoop(ts, k + 1, v, Append(reported, ApplyAlert(ts[k], r.err)),
                              Append(steps, Step(v, TRUE))) :
               r \in {applyTransformer(v, ts[k])} })

\* The evaluation of the computed outputValue on an input and a list of
\* applied transformers: [v, alerts, steps], the value returned, the alerts
\* raised and what each step did.
ComputeOutputValue(input, ts) ==
    IF Len(input) = 0 THEN [v |-> Str(<<>>), alerts |-> <<>>, steps |-> <<>>]
    ELSE ChainLoop(ts, 1, Str(input), <<>>, <<>>)

\* outputValue, a computed property: a function of the state.
outputValue == ComputeOutputValue(InputValue, AppliedTransformers).v

\* The alerts raised while outputValue is evaluated in the current state.
outputAlerts == ComputeOutputValue(InputValue, AppliedTransformers).alerts

-----------------------------------------------------------------------------
(* Bounds and input sets *)

\* The longest pipeline the view, the codec harness and the supplied tokens hold.
MaxApplied == 2

\* The number of nodes (strings, undefined and arrays) of the largest value
\* handed to applyTransformer by its harness.
MaxNodes == 5

\* The longest token text the codec harness garbles.
MaxGarbleLen == 24

\* Sequences over S of length at most n.
RECURSIVE SeqsUpTo(_, _)
SeqsUpTo(S, n) ==
    IF n = 0 THEN {<<>>}
    ELSE SeqsUpTo(S, n - 1) \cup
         {Append(q, x) : q \in {r \in SeqsUpTo(S, n - 1) : Len(r) = n - 1}, x \in S}

\* The texts typed into the input.
InputTexts == {<<>>, <<"b", ",", "a">>, <<" ", "1", "0", ",", "2", "-", "1">>}

\* The argument values the transformer dialog can emit for a definition: one
\* string per entry of Args, as typed into its text areas.
UIArguments(tf) ==
    CASE tf.Func = "split"       -> {<<<<",">>>>, <<<<"1", "%", "w", "%", "2">>>>}
      [] tf.Func = "replace"     -> {<<<<"a">>, <<"$", "&", "$", "&">>>>, <<<<"%", "w", "%", ",">>, <<"$", "1">>>>}
      [] tf.Func = "slice"       -> {<<<<"1">>, <<"-", "1">>>>, <<<<"x">>, <<"2">>>>}
      [] tf.Func = "slice_array" -> {<<<<"0", "-", "1">>>>, <<<<"1">>>>}
      [] tf.Func = "join"        -> {<<<<"-">>>>}
      [] OTHER                   -> {<<>>}

Catalog == {PSTransformers[k] : k \in 1..Len(PSTransformers)}

-----------------------------------------------------------------------------
(* The view *)

NoQuery == [present |-> FALSE, t |-> <<>>]

Query(t) == [present |-> TRUE, t |-> t]

\* A record of a hand-written token: well formed or not.
LoadRecords ==
    { JObject(<<KeyI, KeyA>>, <<JString(PSTransformers[1].ID), JArray(<<JString(<<",">>)>>)>>),
      JObject(<<KeyI, KeyA>>, <<JString(PSTransformers[10].ID), JArray(<<>>)>>),
      JObject(<<KeyI, KeyA>>, <<JString(<<"x">>), JArray(<<>>)>>),
      JObject(<<KeyI, KeyA>>, <<JString(PSTransformers[1].ID), JArray(<<>>)>>),
      JObject(<<KeyI>>, <<JString(PSTransformers[3].ID)>>) }

\* The values of the query parameter t the page can be opened with.
LoadTokens ==
    {JSONStringify(JArray(rs)) : rs \in SeqsUpTo(LoadRecords, MaxApplied)}
      \cup {<<"[", "{">>, JSONStringify(JNull)}

ApplyIdle == applyV = Undefined /\ applyT = <<>> /\ applyR = <<>>

CodecIdle == atlP = <<>> /\ atlToken = <<>> /\ atlStage = "idle" /\ atlR = <<>>

ViewIdle ==
    /\ InputValue = <<>> /\ AppliedTransformers = <<>> /\ alerts = <<>>
    /\ queryT = NoQuery /\ watchPending = FALSE /\ mounted = FALSE

applyVars == <<applyV, applyT, applyR>>

codecVars == <<atlP, atlToken, atlStage, atlR>>

viewVars == <<InputValue, AppliedTransformers, alerts, queryT, watchPending, mounted>>

Init ==
    /\ InputValue = <<>>
    /\ AppliedTransformers = <<>>
    /\ alerts = <<>>
    /\ queryT \in {NoQuery} \cup {Query(t) : t \in LoadTokens}
    /\ watchPending = FALSE
    /\ mounted = FALSE
    /\ ApplyIdle
    /\ CodecIdle

\* onMounted
Mounted ==
    /\ ~mounted
    /\ mounted' = TRUE
    /\ IF queryT.present
       THEN \E r \in {decodeATL(queryT.t)} :
              IF r.ok
              THEN /\ AppliedTransformers' = r.v
                   /\ watchPending' = TRUE
                   /\ UNCHANGED alerts
              ELSE /\ alerts' = <<LoadAlert(r.err)>>
                   /\ UNCHANGED <<AppliedTransformers, watchPending>>
       ELSE UNCHANGED <<AppliedTransformers, watchPending, alerts>>
    /\ UNCHANGED <<InputValue, queryT>>
    /\ UNCHANGED <<applyVars, codecVars>>

\* A handler of the page runs once the component is mounted and the queued
\* watcher has been flushed.
Idle == mounted /\ ~watchPending

\* The text area bound to state.InputValue.
SetInputValue(text) ==
    /\ Idle
    /\ text # InputValue
    /\ InputValue' = text
    /\ UNCHANGED <<AppliedTransformers, alerts, queryT, watchPending, mounted>>
    /\ UNCHANGED <<applyVars, codecVars>>

\* The template shows a transformer that targets arrays only while the output
\* is an array.
Offered(tf) == tf.Target = "string" \/ (tf.Target = "array" /\ IsArray(outputValue))

addTransformer(tf, args) ==
    /\ Idle
    /\ Len(AppliedTransformers) < MaxApplied
    /\ Offered(tf)
    /\ AppliedTransformers' = Append(AppliedTransformers, Invocation(tf, args))
    /\ watchPending' = TRUE
    /\ UNCHANGED <<InputValue, alerts, queryT, mounted>>
    /\ UNCHANGED <<applyVars, codecVars>>

\* The Update button exists for a transformer that takes arguments.
updateTransformer(appliedIndex, args) ==
    /\ Idle
    /\ appliedIndex \in 1..Len(AppliedTransformers)
    /\ Len(AppliedTransformers[appliedIndex].Transformer.Args) > 0
    /\ AppliedTransformers' =
           [AppliedTransformers EXCEPT ![appliedIndex].Arguments = args]
    /\ watchPending' = TRUE
    /\ UNCHANGED <<InputValue, alerts, queryT, mounted>>
    /\ UNCHANGED <<applyVars, codecVars>>

\* The removal by splice(appliedIndex): the entry and all that follow it go.
deleteTransformerFrom(appliedIndex) ==
    /\ Idle
    /\ appliedIndex \in 1..Len(AppliedTransformers)
    /\ AppliedTransformers' = SubSeq(AppliedTransformers, 1, appliedIndex - 1)
    /\ watchPending' = TRUE
    /\ UNCHANGED <<InputValue, alerts, queryT, mounted>>
    /\ UNCHANGED <<applyVars, codecVars>>

deleteTransformer(appliedIndex) ==
    /\ Idle
    /\ appliedIndex \in 1..Len(AppliedTransformers)
    /\ AppliedTransformers' =
           [j \in 1..(Len(AppliedTransformers) - 1) |->
               IF j < appliedIndex THEN AppliedTransformers[j]
               ELSE AppliedTransformers[j + 1]]
    /\ watchPending' = TRUE
    /\ UNCHANGED <<InputValue, alerts, queryT, mounted>>
    /\ UNCHANGED <<applyVars, codecVars>>

\* The clear button: state.AppliedTransformers = []
ClearApplied ==
    /\ Idle
    /\ Len(AppliedTransformers) > 0
    /\ AppliedTransformers' = <<>>
    /\ watchPending' = TRUE
    /\ UNCHANGED <<InputValue, alerts, queryT, mounted>>
    /\ UNCHANGED <<applyVars, codecVars>>

\* The watcher that always sets the parameter, also for the empty list.
WatchAppliedAlwaysSets ==
    /\ watchPending
    /\ watchPending' = FALSE
    /\ queryT' = Query(encodeATL(AppliedTransformers))
    /\ UNCHANGED <<InputValue, AppliedTransformers, alerts, mounted>>
    /\ UNCHANGED <<applyVars, codecVars>>

\* The watcher of state.AppliedTransformers: the URL query follows the list.
WatchApplied ==
    /\ watchPending
    /\ watchPending' = FALSE
    /\ queryT' = IF Len(AppliedTransformers) = 0 THEN NoQuery
                 ELSE Query(encodeATL(AppliedTransformers))
    /\ UNCHANGED <<InputValue, AppliedTransformers, alerts, mounted>>
    /\ UNCHANGED <<applyVars, codecVars>>

Next ==
    \/ Mounted
    \/ \E text \in InputTexts : SetInputValue(text)
    \/ \E tf \in Catalog : \E args \in UIArguments(tf) : addTransformer(tf, args)
    \/ \E k \in 1..Len(AppliedTransformers) :
          \E args \in UIArguments(AppliedTransformers[k].Transformer)
                        \cup {AppliedTransformers[k].Arguments} :
             updateTransformer(k, args)
    \/ \E k \in 1..Len(AppliedTransformers) : deleteTransformer(k)
    \/ ClearApplied
    \/ WatchApplied

Spec == Init /\ [][Next]_vars

-----------------------------------------------------------------------------
(* applyTransformer on its own: any value, any invocation *)

\* The strings at the leaves of the values.
LeafTexts == {<<" ", "b", ",", "A">>, <<"1">>}

\* ValuesBySize[n]: t, the values with exactly n nodes; f, the sequences of
\* values with n nodes in all.  An array may hold strings, arrays and
\* undefined side by side.
ValuesBySize[n \in 0..(MaxNodes + 1)] ==
    IF n = 0 THEN [t |-> {}, f |-> {<<>>}]
    ELSE LET trees == IF n = 1
                      THEN {Str(s) : s \in LeafTexts} \cup {Undefined, Arr(<<>>)}
                      ELSE {Arr(f) : f \in ValuesBySize[n - 1].f \ {<<>>}}
         IN  [t |-> trees,
              f |-> UNION { {<<x>> \o f : x \in (IF k = n THEN trees ELSE ValuesBySize[k].t),
                                          f \in ValuesBySize[n - k].f} : k \in 1..n }]

ApplyValues == UNION {ValuesBySize[n].t : n \in 1..MaxNodes}

\* The invocations: every definition with each argument list of its dialog,
\* and split without its argument.
ApplyInvocations ==
    UNION {{Invocation(tf, args) : args \in UIArguments(tf)} : tf \in Catalog}
      \cup {Invocation(PSTransformers[1], <<>>)}

InitApply ==
    /\ ViewIdle
    /\ CodecIdle
    /\ applyV \in ApplyValues
    /\ applyT \in ApplyInvocations
    /\ applyR = <<>>

\* One call applyTransformer(applyV, applyT); applyR keeps its outcome.
Apply ==
    /\ applyR = <<>>
    /\ applyR' = <<applyTransformer(applyV, applyT)>>
    /\ UNCHANGED <<applyV, applyT>>
    /\ UNCHANGED <<viewVars, codecVars>>

NextApply == Apply

SpecApply == InitApply /\ [][NextApply]_vars

-----------------------------------------------------------------------------
(* The codec on its own: encodeATL, tokens from elsewhere, decodeATL *)

\* Argument lists of any length, with the characters JSON escapes.
CodecArguments == {<<>>, <<<<"a", "\"">>>>, <<<<"\\">>, <<"\n", ",">>>>}

\* Every definition without arguments, and three of them (split, replace, join)
\* with each argument list.
CodecInvocations ==
    {Invocation(tf, <<>>) : tf \in Catalog}
      \cup {Invocation(PSTransformers[k], args) : k \in {1, 2, 10}, args \in CodecArguments}

CodecPipelines == SeqsUpTo(CodecInvocations, MaxApplied)

\* A member a record of a supplied token does not have.
NoMember == [j |-> "none", s |-> <<>>, e |-> <<>>, keys |-> <<>>]

\* The members i and a of the records of a supplied token.
SupplyI ==
    {NoMember, JString(PSTransformers[1].ID), JString(<<"x">>), JNull, JNumber(<<"1">>)}

SupplyA ==
    {NoMember, JArray(<<>>), JArray(<<JString(<<"s">>)>>), JArray(<<JNumber(<<"1">>)>>),
     JArray(<<JString(<<"s">>), JNull>>), JString(<<"s">>)}

SupplyObject(i, a) ==
    JObject((IF i = NoMember THEN <<>> ELSE <<KeyI>>) \o (IF a = NoMember THEN <<>> ELSE <<KeyA>>),
            (IF i = NoMember THEN <<>> ELSE <<i>>) \o (IF a = NoMember THEN <<>> ELSE <<a>>))

\* The records of a supplied token: objects with or without i and a, members
\* in the other order, a member given twice, and records that are no objects.
SupplyRecords ==
    {SupplyObject(i, JArray(<<JString(<<"s">>)>>)) : i \in SupplyI}
      \cup {SupplyObject(JString(PSTransformers[1].ID), a) : a \in SupplyA}
      \cup {SupplyObject(NoMember, NoMember)}
      \cup {JObject(<<KeyA, KeyI>>, <<JArray(<<>>), JString(PSTransformers[3].ID)>>),
            JObject(<<KeyI, KeyI, KeyA>>,
                    <<JString(<<"x">>), JString(PSTransformers[3].ID), JArray(<<>>)>>),
            JNull, JString(PSTransformers[3].ID), JArray(<<>>)}

\* The documents a supplied token is the text of.
SupplyDocs ==
    {JArray(rs) : rs \in SeqsUpTo(SupplyRecords, MaxApplied)}
      \cup {JNull, JString(PSTransformers[3].ID), JNumber(<<"1">>),
            SupplyObject(JString(PSTransformers[3].ID), JArray(<<>>))}

InitCodec ==
    /\ ViewIdle
    /\ ApplyIdle
    /\ atlP \in CodecPipelines
    /\ atlToken = <<>>
    /\ atlStage = "start"
    /\ atlR = <<>>

\* The token is encodeATL of the pipeline.
Encode ==
    /\ atlStage = "start"
    /\ atlToken' = encodeATL(atlP)
    /\ atlStage' = "encoded"
    /\ UNCHANGED <<atlP, atlR>>
    /\ UNCHANGED <<viewVars, applyVars>>

\* The token comes from elsewhere: the text of some JSON document.
Supply(doc) ==
    /\ atlStage = "start"
    /\ atlP = <<>>
    /\ atlToken' = JSONStringify(doc)
    /\ atlStage' = "supplied"
    /\ UNCHANGED <<atlP, atlR>>
    /\ UNCHANGED <<viewVars, applyVars>>

\* The token loses its k-th character on the way.
Garble(k) ==
    /\ atlStage \in {"encoded", "supplied"}
    /\ atlR = <<>>
    /\ Len(atlToken) <= MaxGarbleLen
    /\ k \in 1..Len(atlToken)
    /\ atlToken' = SubSeq(atlToken, 1, k - 1) \o SubSeq(atlToken, k + 1, Len(atlToken))
    /\ atlStage' = "garbled"
    /\ UNCHANGED <<atlP, atlR>>
    /\ UNCHANGED <<viewVars, applyVars>>

\* One call decodeATL(atlToken); atlR keeps its outcome.
Decode ==
    /\ atlStage \in {"encoded", "supplied", "garbled"}
    /\ atlR = <<>>
    /\ atlR' = <<decodeATL(atlToken)>>
    /\ UNCHANGED <<atlP, atlToken, atlStage>>
    /\ UNCHANGED <<viewVars, applyVars>>

NextCodec ==
    \/ Encode
    \/ \E doc \in SupplyDocs : Supply(doc)
    \/ \E k \in 1..MaxGarbleLen : Garble(k)
    \/ Decode

SpecCodec == InitCodec /\ [][NextCodec]_vars

-----------------------------------------------------------------------------
(* Properties of the codec, checked under SpecCodec *)

\* decodeATL has been called on the token.
Decoded == atlR # <<>>

\* C1: round trip.  decodeATL(encodeATL(p)) raises no error and returns a
\* pipeline as long as p whose i-th entry references the same catalog
\* definition and has the same argument sequence as the i-th entry of p.
C1_RoundTrip ==
    (atlStage = "encoded" /\ Decoded) =>
        /\ atlR[1].ok
        /\ Len(atlR[1].v) = Len(atlP)
        /\ \A i \in 1..Len(atlP) :
              /\ atlR[1].v[i].Transformer = atlP[i].Transformer
              /\ atlR[1].v[i].Arguments = atlP[i].Arguments

\* A pipeline of MaxApplied invocations, one of them with an argument that
\* holds a double quote and one with a backslash, has made the round trip.
C1_Witness ==
    /\ atlStage = "encoded"
    /\ Decoded
    /\ Len(atlP) = MaxApplied
    /\ \E i \in 1..Len(atlP) : \E j \in 1..Len(atlP[i].Arguments) :
          \E c \in 1..Len(atlP[i].Arguments[j]) : atlP[i].Arguments[j][c] = "\""
    /\ \E i \in 1..Len(atlP) : \E j \in 1..Len(atlP[i].Arguments) :
          \E c \in 1..Len(atlP[i].Arguments[j]) : atlP[i].Arguments[j][c] = "\\"

\* The member named key of a JSON value, by position: 0 if it has none.
MemberAt(r, key) ==
    IF r.j # "object" \/ ~(\E m \in 1..Len(r.keys) : r.keys[m] = key) THEN 0
    ELSE CHOOSE m \in 1..Len(r.keys) :
            r.keys[m] = key /\ \A n \in 1..Len(r.keys) : r.keys[n] = key => n <= m

\* A record decodeATL has to refuse: i is missing, a is missing or no array,
\* an element of a is no string, or i is the ID of no definition.
BadRecord(r) ==
    \/ MemberAt(r, KeyI) = 0
    \/ MemberAt(r, KeyA) = 0
    \/ r.e[MemberAt(r, KeyA)].j # "array"
    \/ \E j \in 1..Len(r.e[MemberAt(r, KeyA)].e) : r.e[MemberAt(r, KeyA)].e[j].j # "string"
    \/ r.e[MemberAt(r, KeyI)].j # "string"
    \/ \A tf \in Catalog : tf.ID # r.e[MemberAt(r, KeyI)].s

\* A token decodeATL has to refuse: no JSON, no array, or an array with a bad
\* record.
BadToken(token) ==
    \/ ~JSONParse(token).ok
    \/ JSONParse(token).v.j # "array"
    \/ \E k \in 1..Len(JSONParse(token).v.e) : BadRecord(JSONParse(token).v.e[k])

\* C8: decodeATL raises an error and returns no pipeline for a token that is
\* no valid JSON, whose top level is no array, or that has a record whose i is
\* missing, whose a is no array, whose a holds a non-string, or whose i is the
\* ID of no catalog definition.
C8_DecodeRefuses ==
    (Decoded /\ BadToken(atlToken)) => (~atlR[1].ok /\ atlR[1].v = <<>>)

\* decodeATL has refused a token whose first record is good and whose second
\* record has a number among its arguments.
C8_Witness ==
    /\ Decoded
    /\ ~atlR[1].ok
    /\ JSONParse(atlToken).ok
    /\ JSONParse(atlToken).v.j = "array"
    /\ Len(JSONParse(atlToken).v.e) = 2
    /\ ~BadRecord(JSONParse(atlToken).v.e[1])
    /\ MemberAt(JSONParse(atlToken).v.e[2], KeyA) # 0
    /\ JSONParse(atlToken).v.e[2].e[MemberAt(JSONParse(atlToken).v.e[2], KeyA)]
          = JArray(<<JNumber(<<"1">>)>>)

\* C10: encodeATL(p) is the text of a JSON array with one record per
\* invocation of p, in the order of p; record k has the members i and a and no
\* other, i the ID of the k-th invocation's definition and a its arguments.
C10_EncodeShape ==
    (atlStage = "encoded") =>
        /\ JSONParse(atlToken).ok
        /\ JSONParse(atlToken).v.j = "array"
        /\ Len(JSONParse(atlToken).v.e) = Len(atlP)
        /\ \A k \in 1..Len(atlP) :
              /\ JSONParse(atlToken).v.e[k].j = "object"
              /\ JSONParse(atlToken).v.e[k].keys = <<KeyI, KeyA>>
              /\ JSONParse(atlToken).v.e[k].e[1] = JString(atlP[k].Transformer.ID)
              /\ JSONParse(atlToken).v.e[k].e[2] =
                    JArray([j \in 1..Len(atlP[k].Arguments) |->
                               JString(atlP[k].Arguments[j])])

\* encodeATL has encoded MaxApplied invocations of different definitions, the
\* first one with two arguments.
C10_Witness ==
    /\ atlStage = "encoded"
    /\ Len(atlP) = MaxApplied
    /\ atlP[1].Transformer # atlP[2].Transformer
    /\ Len(atlP[1].Arguments) = 2

-----------------------------------------------------------------------------
(* Properties of applyTransformer, checked under SpecApply *)

\* applyTransformer has been called on the value.
Applied == applyR # <<>>

\* C5: applyTransformer on a string with a transformer whose Target is array
\* throws and does not invoke Func; it also throws on a value that is neither
\* a string nor an array.
C5_TypeMismatch ==
    Applied =>
        /\ (IsString(applyV) /\ applyT.Transformer.Target = "array")
              => (~applyR[1].ok /\ applyR[1].calls = <<>>)
        /\ (~IsString(applyV) /\ ~IsArray(applyV)) => ~applyR[1].ok

\* applyTransformer has thrown on a string handed to an array-targeted
\* transformer.
C5_Witness ==
    /\ Applied
    /\ IsString(applyV)
    /\ applyT.Transformer.Target = "array"
    /\ ~applyR[1].ok

\* A nested value: a string, or an array of nested values.
RECURSIVE IsNested(_)
IsNested(v) ==
    \/ IsString(v)
    \/ IsArray(v) /\ \A j \in 1..Len(v.e) : IsNested(v.e[j])

\* The leaf strings of a nested value, from left to right.
RECURSIVE Leaves(_)
Leaves(v) ==
    IF IsString(v) THEN <<v>>
    ELSE LET F[j \in 0..Len(v.e)] == IF j = 0 THEN <<>> ELSE F[j - 1] \o Leaves(v.e[j])
         IN  F[Len(v.e)]

\* The nested value v with each leaf string s replaced by tf.Func(s, args).
RECURSIVE LeafImage(_, _, _)
LeafImage(v, tf, args) ==
    IF IsString(v) THEN Func(tf, v, args).v
    ELSE Arr([j \in 1..Len(v.e) |-> LeafImage(v.e[j], tf, args)])

\* The nesting depth of a value: 0 for a string.
RECURSIVE Depth(_)
Depth(v) ==
    IF ~IsArray(v) THEN 0
    ELSE LET F[j \in 0..Len(v.e)] == IF j = 0 THEN 0 ELSE Max(F[j - 1], Depth(v.e[j]))
         IN  1 + F[Len(v.e)]

\* C6: for a string-targeted transformer t and a nested value v of any depth,
\* applyTransformer(v, t) has the nesting of v with each leaf string s replaced
\* by t.Func(s, args): Func is called once on each leaf, from left to right,
\* and never on an array.  (Where Func throws on a leaf, so does
\* applyTransformer.)
C6_EveryLeaf ==
    (Applied /\ applyT.Transformer.Target = "string" /\ IsNested(applyV)) =>
        /\ \A j \in 1..Len(applyR[1].calls) : IsString(applyR[1].calls[j])
        /\ IF \A j \in 1..Len(Leaves(applyV)) :
                 Func(applyT.Transformer, Leaves(applyV)[j], applyT.Arguments).ok
           THEN /\ applyR[1].ok
                /\ applyR[1].calls = Leaves(applyV)
                /\ applyR[1].v = LeafImage(applyV, applyT.Transformer, applyT.Arguments)
           ELSE ~applyR[1].ok

\* A string-targeted transformer has been applied to a value three arrays
\* deep with leaves at different depths, and the leaves have changed.
C6_Witness ==
    /\ Applied
    /\ applyT.Transformer.Target = "string"
    /\ IsNested(applyV)
    /\ Depth(applyV) = 3
    /\ Len(Leaves(applyV)) = 2
    /\ IsString(applyV.e[1])
    /\ applyR[1].ok
    /\ applyR[1].v # applyV

\* An array whose arrays are homogeneous and whose innermost arrays are not
\* empty: its elements are all strings, or all such arrays.
RECURSIVE IsUniform(_)
IsUniform(v) ==
    /\ IsArray(v)
    /\ Len(v.e) > 0
    /\ \/ \A j \in 1..Len(v.e) : IsString(v.e[j])
       \/ \A j \in 1..Len(v.e) : IsUniform(v.e[j])

\* The innermost arrays of a uniform array, from left to right.
RECURSIVE Rows(_)
Rows(v) ==
    IF IsString(v.e[1]) THEN <<v>>
    ELSE LET F[j \in 0..Len(v.e)] == IF j = 0 THEN <<>> ELSE F[j - 1] \o Rows(v.e[j])
         IN  F[Len(v.e)]

\* The uniform array v with each innermost array r replaced by tf.Func(r, args).
RECURSIVE RowImage(_, _, _)
RowImage(v, tf, args) ==
    IF IsString(v.e[1]) THEN Func(tf, v, args).v
    ELSE Arr([j \in 1..Len(v.e) |-> RowImage(v.e[j], tf, args)])

\* C7: for an array-targeted transformer t and an array v whose arrays are
\* homogeneous and whose innermost arrays are not empty, applyTransformer(v, t)
\* keeps the outer nesting and replaces each innermost array r by
\* t.Func(r, args).  On any array, Func is called on the array itself exactly
\* when it is not empty and its first element is a string; otherwise the call
\* descends into each element.
C7_InnermostRows ==
    (Applied /\ applyT.Transformer.Target = "array" /\ IsArray(applyV)) =>
        /\ (applyR[1].calls = <<applyV>>) <=> FirstChildIsString(applyV)
        /\ \A j \in 1..Len(applyR[1].calls) : FirstChildIsString(applyR[1].calls[j])
        /\ (~FirstChildIsString(applyV) /\ applyR[1].ok)
              => (IsArray(applyR[1].v) /\ Len(applyR[1].v.e) = Len(applyV.e))
        /\ IsUniform(applyV) =>
              IF \A j \in 1..Len(Rows(applyV)) :
                    Func(applyT.Transformer, Rows(applyV)[j], applyT.Arguments).ok
              THEN /\ applyR[1].ok
                   /\ applyR[1].calls = Rows(applyV)
                   /\ applyR[1].v = RowImage(applyV, applyT.Transformer, applyT.Arguments)
              ELSE ~applyR[1].ok

\* An array-targeted transformer has been applied to a uniform array two
\* arrays deep with two innermost arrays, and the value has changed.
C7_Witness ==
    /\ Applied
    /\ applyT.Transformer.Target = "array"
    /\ IsUniform(applyV)
    /\ Depth(applyV) = 2
    /\ Len(Rows(applyV)) = 2
    /\ applyR[1].ok
    /\ applyR[1].v # applyV

-----------------------------------------------------------------------------
(* Properties of the view, checked under Spec *)

\* The steps that threw, among the steps of one evaluation.
FailingOf(steps) == {i \in 1..Len(steps) : steps[i].threw}

\* The steps of the evaluation in the current state that threw.
Failing == FailingOf(ComputeOutputValue(InputValue, AppliedTransformers).steps)

\* The pipeline ts without the invocations whose step is in failing.
Without(ts, failing) ==
    LET F[i \in 0..Len(ts)] ==
            IF i = 0 THEN <<>>
            ELSE IF i \in failing THEN F[i - 1]
            ELSE Append(F[i - 1], ts[i])
    IN  F[Len(ts)]

\* C2: fail-soft chain.  When a step of the evaluation throws, be it the type
\* mismatch of applyTransformer or an error inside Func, the fold goes on: every
\* step is entered, the step after a failing one is entered with the value
\* that entered the failing one, and the output is the output of the pipeline
\* without the failing invocations, none of which throws.
C2_FailSoft ==
    \A r \in {ComputeOutputValue(InputValue, AppliedTransformers)} :
        /\ FailingOf(r.steps) # {} =>
              /\ Len(r.steps) = Len(AppliedTransformers)
              /\ \A i \in FailingOf(r.steps) :
                    IF i < Len(r.steps)
                    THEN r.steps[i + 1].entered = r.steps[i].entered
                    ELSE r.v = r.steps[i].entered
              /\ \A q \in {ComputeOutputValue(InputValue,
                                              Without(AppliedTransformers, FailingOf(r.steps)))} :
                    /\ r.v = q.v
                    /\ FailingOf(q.steps) = {}

\* The first of two steps has thrown and the second has changed the value.
C2_Witness ==
    /\ Len(AppliedTransformers) = 2
    /\ Failing = {1}
    /\ outputValue # Str(InputValue)

\* The n-th of the steps in failing, in pipeline order.
NthOf(failing, n) == CHOOSE i \in failing : Cardinality({j \in failing : j <= i}) = n

\* C3: failure reporting.  In one evaluation every step that throws raises
\* exactly one alert, which names the transformer of that step; the alerts
\* come in pipeline order and a step that succeeds raises none.
C3_Reports ==
    \A r \in {ComputeOutputValue(InputValue, AppliedTransformers)} :
        /\ Len(r.alerts) = Cardinality(FailingOf(r.steps))
        /\ \A n \in 1..Len(r.alerts) :
              /\ r.alerts[n].kind = "apply"
              /\ r.alerts[n].name =
                    AppliedTransformers[NthOf(FailingOf(r.steps), n)].Transformer.Name

\* Two steps with different transformers have thrown in one evaluation.
C3_TwoReports ==
    /\ Failing = {1, 2}
    /\ AppliedTransformers[1].Transformer # AppliedTransformers[2].Transformer
    /\ Len(outputAlerts) = 2

\* The left fold of applyTransformer over a pipeline: [ok, v], ok while no
\* step has thrown.
RECURSIVE LeftFold(_, _, _)
LeftFold(ts, k, v) ==
    IF k > Len(ts) THEN [ok |-> TRUE, v |-> v]
    ELSE IF ~applyTransformer(v, ts[k]).ok THEN [ok |-> FALSE, v |-> v]
    ELSE LeftFold(ts, k + 1, applyTransformer(v, ts[k]).v)

\* C4: the chain output is the left fold of applyTransformer over the
\* pipeline in insertion order, for every initial string, the empty one
\* included, and every pipeline whose steps all succeed; with an empty
\* pipeline it is the initial value.
C4_LeftFold ==
    /\ LeftFold(AppliedTransformers, 1, Str(InputValue)).ok
          => outputValue = LeftFold(AppliedTransformers, 1, Str(InputValue)).v
    /\ AppliedTransformers = <<>> => outputValue = Str(InputValue)

\* The load: onMounted runs with a token in the query.
Load == ~mounted /\ mounted' /\ queryT.present

\* C9: when the decoding of the token supplied at load fails at any record,
\* also at one that follows good ones, nothing of the token is installed: the
\* applied transformers stay as they were, empty, and exactly one failure is
\* reported.
C9_LoadAllOrNothing ==
    [][(Load /\ BadToken(queryT.t)) =>
          /\ AppliedTransformers' = AppliedTransformers
          /\ AppliedTransformers' = <<>>
          /\ Len(alerts') = Len(alerts) + 1
          /\ alerts'[Len(alerts')].kind = "load"]_vars

\* The page has been loaded with a token whose first record is good and whose
\* second record is bad, and has reported it.
C9_Witness ==
    /\ mounted
    /\ queryT.present
    /\ JSONParse(queryT.t).ok
    /\ JSONParse(queryT.t).v.j = "array"
    /\ Len(JSONParse(queryT.t).v.e) = 2
    /\ ~BadRecord(JSONParse(queryT.t).v.e[1])
    /\ BadRecord(JSONParse(queryT.t).v.e[2])
    /\ Len(alerts) = 1
    /\ AppliedTransformers = <<>>

-----------------------------------------------------------------------------
(* slice_array.Func on its own: a row of strings and an index text *)

\* The longest index text of the exhaustive part of the inputs.
MaxIndexLen == 4

\* The longest row handed to slice_array and to sort.
MaxArrayLen == 4

\* The characters of the index texts.
IndexChars == {"0", "1", "2", "-", ",", " ", "a"}

\* Index texts beyond the exhaustive ones.
NamedIndexTexts ==
    { <<"1", ",", "3">>, <<"1", "-", "2", "-", "3">>, <<"a", "b", "c">>,
      <<"a", ",", "b">>, <<"1", ",", "x">>, <<"-", "2", "-", "4">>,
      <<"0", "-", "9">>, <<"7">>, <<"3", ",", "0", ",", "9">>, <<"1", "\n", "-", " ", "3">> }

IndexTexts == SeqsUpTo(IndexChars, MaxIndexLen) \cup NamedIndexTexts

ElementNames == <<"a", "b", "c", "d", "e", "f">>

\* The row of the first n element names.  applyTransformer hands a Func that
\* targets arrays a row that is not empty and starts with a string.
RowOf(n) == Arr([j \in 1..n |-> Str(<<ElementNames[j]>>)])

InitSliceArray ==
    /\ ViewIdle
    /\ CodecIdle
    /\ applyV \in {RowOf(n) : n \in 1..MaxArrayLen}
    /\ applyT \in {Invocation(PSTransformers[7], <<s>>) : s \in IndexTexts}
    /\ applyR = <<>>

\* One call t.Transformer.Func(v, ...t.Arguments); applyR keeps its outcome.
CallTransformerFunc ==
    /\ applyR = <<>>
    /\ applyR' = <<CallFunc(applyV, applyT)>>
    /\ applyV' = ReceivedAfter(applyT.Transformer, applyV, applyT.Arguments)
    /\ UNCHANGED applyT
    /\ UNCHANGED <<viewVars, codecVars>>

SpecSliceArray == InitSliceArray /\ [][CallTransformerFunc]_vars

-----------------------------------------------------------------------------
(* Properties of slice_array, checked under SpecSliceArray *)

\* The index text of the call without its spaces and line breaks.
IndexText == SelectSeq(applyT.Arguments[1], LAMBDA c : c # " " /\ c # "\n")

\* A decimal integer: one digit or more, nothing else.
IsDecimal(s) == s # <<>> /\ \A j \in 1..Len(s) : IsDigit(s[j])

\* The number a decimal integer denotes.
DecimalValue(s) ==
    LET F[j \in 0..Len(s)] == IF j = 0 THEN 0 ELSE 10 * F[j - 1] + DigitValue(s[j])
    IN  F[Len(s)]

\* The positions of the character c in s.
PositionsOf(s, c) == {j \in 1..Len(s) : s[j] = c}

\* The parts of s between the occurrences of the character c.
PartsBy(s, c) ==
    LET cuts == PositionsOf(s, c) \cup {0, Len(s) + 1}
        nth(n) == CHOOSE j \in cuts : Cardinality({i \in cuts : i < j}) = n
    IN  [n \in 1..(Cardinality(cuts) - 1) |-> SubSeq(s, nth(n - 1) + 1, nth(n) - 1)]

\* The text is start-end with two decimal integers.
IsRangeText(s) ==
    /\ Cardinality(PositionsOf(s, "-")) = 1
    /\ \A n \in 1..2 : IsDecimal(PartsBy(s, "-")[n])

\* The text is a list of decimal integers between commas.
IsListText(s) ==
    /\ PositionsOf(s, "-") = {}
    /\ PositionsOf(s, ",") # {}
    /\ \A n \in 1..Len(PartsBy(s, ",")) : IsDecimal(PartsBy(s, ",")[n])

\* The text is one decimal integer.
IsSingleText(s) == IsDecimal(s)

\* The elements of e at the 0-based positions from lo up to, not including, hi.
HalfOpen(e, lo, hi) ==
    IF Min(lo, Len(e)) >= Min(hi, Len(e)) THEN <<>>
    ELSE SubSeq(e, Min(lo, Len(e)) + 1, Min(hi, Len(e)))

\* e without the elements at the 0-based positions in gone.
Remaining(e, gone) ==
    LET F[j \in 0..Len(e)] ==
            IF j = 0 THEN <<>>
            ELSE IF (j - 1) \in gone THEN F[j - 1] ELSE Append(F[j - 1], e[j])
    IN  F[Len(e)]

\* The element of e at the 0-based position k, undefined past the end.
ElementAt(e, k) == IF k < Len(e) THEN e[k + 1] ELSE Undefined

\* C11: slice_array with an index text that normalizes to start-end, two
\* decimal integers, returns the half-open slice [start, end) of the array.
C11_RangeSlice ==
    (Applied /\ IsRangeText(IndexText)) =>
        /\ applyR[1].ok
        /\ applyR[1].v = Arr(HalfOpen(applyV.e, DecimalValue(PartsBy(IndexText, "-")[1]),
                                      DecimalValue(PartsBy(IndexText, "-")[2])))

\* slice_array has been called with 0-2 on [a, b, c, d] and has returned [a, b].
C11_Witness ==
    /\ Applied
    /\ applyV = RowOf(4)
    /\ applyT.Arguments = << <<"0", "-", "2">> >>
    /\ applyR[1].v = RowOf(2)

\* C12 as stated: slice_array with a list of decimal integers between commas
\* returns the array without the elements at the listed positions, the others
\* in their order.
C12_ListRemoves ==
    (Applied /\ IsListText(IndexText)) =>
        /\ applyR[1].ok
        /\ applyR[1].v =
              Arr(Remaining(applyV.e, {DecimalValue(PartsBy(IndexText, ",")[n]) :
                                          n \in 1..Len(PartsBy(IndexText, ","))}))

\* C12 as amended: slice_array with a list of decimal integers between commas
\* returns the elements at the listed positions, one per listed index in the
\* order of the list, undefined for an index past the end of the array.
C12_ListSelects ==
    (Applied /\ IsListText(IndexText)) =>
        /\ applyR[1].ok
        /\ applyR[1].v =
              Arr([n \in 1..Len(PartsBy(IndexText, ",")) |->
                      ElementAt(applyV.e, DecimalValue(PartsBy(IndexText, ",")[n]))])

\* slice_array has been called with 1,3 on [a, b, c, d] and has returned [b, d].
C12_Witness ==
    /\ Applied
    /\ applyV = RowOf(4)
    /\ applyT.Arguments = << <<"1", ",", "3">> >>
    /\ applyR[1].v = Arr(<<Str(<<"b">>), Str(<<"d">>)>>)

\* C13 as stated: slice_array with an index text that is one decimal integer k
\* returns the array without the element at k, the others in their order.
C13_SingleRemoves ==
    (Applied /\ IsSingleText(IndexText)) =>
        /\ applyR[1].ok
        /\ applyR[1].v = Arr(Remaining(applyV.e, {DecimalValue(IndexText)}))

\* C13 as amended: slice_array with an index text that is one decimal integer
\* k returns the array of the one element at k, undefined if k is past the end.
C13_SingleSelects ==
    (Applied /\ IsSingleText(IndexText)) =>
        /\ applyR[1].ok
        /\ applyR[1].v = Arr(<<ElementAt(applyV.e, DecimalValue(IndexText))>>)

\* slice_array has been called with 1 on [a, b, c] and has returned [b].
C13_Witness ==
    /\ Applied
    /\ applyV = RowOf(3)
    /\ applyT.Arguments = << <<"1">> >>
    /\ applyR[1].v = Arr(<<Str(<<"b">>)>>)

\* C14: slice_array returns the array unchanged for a text with more than one
\* dash, and for a text with no dash, no comma and no integer at its front
\* (the empty text and abc among them).
C14_NoOpTexts ==
    (/\ Applied
     /\ \/ Cardinality(PositionsOf(IndexText, "-")) > 1
        \/ /\ PositionsOf(IndexText, "-") = {}
           /\ PositionsOf(IndexText, ",") = {}
           /\ (IndexText = <<>> \/ ~IsDigit(IndexText[1])))
      => (applyR[1].ok /\ applyR[1].v = applyV)

\* slice_array has been called with 1-2-3 on [a, b, c, d] and has returned it.
C14_Witness ==
    /\ Applied
    /\ applyV = RowOf(4)
    /\ applyT.Arguments = << <<"1", "-", "2", "-", "3">> >>
    /\ applyR[1].v = applyV

\* C15: for an index text that is no well-formed range, list or single index,
\* slice_array raises no error and returns the array unchanged.
C15_MalformedNoOp ==
    (/\ Applied
     /\ ~IsRangeText(IndexText)
     /\ ~IsListText(IndexText)
     /\ ~IsSingleText(IndexText))
      => (applyR[1].ok /\ applyR[1].v = applyV)

\* A decimal integer with its sign, for -9 .. 9.
SignedText(n) ==
    IF n < 0 THEN <<"-", <<"0", "1", "2", "3", "4", "5", "6", "7", "8", "9">>[1 - n]>>
    ELSE <<(<<"0", "1", "2", "3", "4", "5", "6", "7", "8", "9">>)[n + 1]>>

\* Array.prototype.slice on integers: a negative index counts from the end,
\* an index past the end is the length.
SliceFrom(e, start, end) ==
    LET lo == IF start < 0 THEN Max(Len(e) + start, 0) ELSE Min(start, Len(e))
        hi == IF end < 0 THEN Max(Len(e) + end, 0) ELSE Min(end, Len(e))
    IN  IF lo >= hi THEN <<>> ELSE SubSeq(e, lo + 1, hi)

\* C16: in the range form an end past the length is the length, and a
\* negative start or end counts from the end of the array.
C16_RangeClamps ==
    Applied =>
        \A start \in (0 - 9)..9 : \A end \in (0 - 9)..9 :
            (IndexText = SignedText(start) \o <<"-">> \o SignedText(end))
               => (applyR[1].ok /\ applyR[1].v = Arr(SliceFrom(applyV.e, start, end)))

-----------------------------------------------------------------------------
\* reverse.Func and sort.Func on rows of strings.

\* The elements a row to sort is made of: integers of one and two digits, a
\* negative one, an integer followed by a letter, letters and the empty string.
SortTexts ==
    { <<"1">>, <<"2">>, <<"1", "0">>, <<"-", "1">>, <<"2", "a">>,
      <<"a">>, <<"b">>, <<>> }

SortRows ==
    { Arr([j \in 1..Len(q) |-> Str(q[j])]) :
        q \in SeqsUpTo(SortTexts, MaxArrayLen) \ {<<>>} }

InitSort ==
    /\ ViewIdle
    /\ CodecIdle
    /\ applyV \in SortRows
    /\ applyT \in {Invocation(PSTransformers[k], <<>>) : k \in {8, 9}}
    /\ applyR = <<>>

SpecSort == InitSort /\ [][CallTransformerFunc]_vars

\* Properties of sort, checked under SpecSort.

\* The elements of the row.
RowTexts(e) == [j \in 1..Len(e) |-> e[j].s]

\* How many times x occurs in the sequence q.
Occurrences(q, x) == Cardinality({j \in 1..Len(q) : q[j] = x})

IsPermutation(p, q) ==
    /\ Len(p) = Len(q)
    /\ \A j \in 1..Len(q) : Occurrences(p, q[j]) = Occurrences(q, q[j])

\* Every element starts, after an optional sign, with a decimal digit.
AllIntegers(q) ==
    \A j \in 1..Len(q) :
        \/ q[j] # <<>> /\ IsDigit(q[j][1])
        \/ Len(q[j]) > 1 /\ q[j][1] \in {"-", "+"} /\ IsDigit(q[j][2])

AscendingNumeric(q) ==
    \A j \in 1..(Len(q) - 1) : ParseIntString(q[j]).n <= ParseIntString(q[j + 1]).n

AscendingLexicographic(q) ==
    \A j \in 1..(Len(q) - 1) : ~StringLess(q[j + 1], q[j])

\* C17: sort returns a permutation of the row it is given, in ascending numeric
\* order when every element parses as an integer and in code-unit string order
\* otherwise; ['10','2','1'] gives ['1','2','10'] and ['b','a','10'] gives
\* ['10','a','b'].
C17_SortOrder ==
    (Applied /\ applyT.Transformer = PSTransformers[9]) =>
        \A r \in {applyR[1]} :
            /\ r.ok
            /\ IsArray(r.v)
            /\ \A given \in {RowTexts(applyV.e)}, sorted \in {RowTexts(r.v.e)} :
                /\ IsPermutation(sorted, given)
                /\ IF AllIntegers(given) THEN AscendingNumeric(sorted)
                   ELSE AscendingLexicographic(sorted)
                /\ (given = << <<"1", "0">>, <<"2">>, <<"1">> >>)
                       => (sorted = << <<"1">>, <<"2">>, <<"1", "0">> >>)
                /\ (given = << <<"b">>, <<"a">>, <<"1", "0">> >>)
                       => (sorted = << <<"1", "0">>, <<"a">>, <<"b">> >>)

\* ['10','2','1'] has been sorted to ['1','2','10'].
C17_Witness ==
    /\ Applied
    /\ applyT.Transformer = PSTransformers[9]
    /\ RowTexts(applyV.e) = << <<"1", "0">>, <<"2">>, <<"1">> >>
    /\ RowTexts(applyR[1].v.e) = << <<"1">>, <<"2">>, <<"1", "0">> >>

-----------------------------------------------------------------------------
\* split.Func and replace.Func on texts, separators and patterns.

MaxTextLen == 3

MaxPatternPieces == 2

TextChars == {"a", "b", "."}

NamedTexts ==
    { <<"a", "x", "x", "x", "b", "-", "a", "y", "b">>,
      <<"(", "a", ")", "(", "b", ")">>,
      <<"(", "a", ")", "b", ".", "a">>,
      <<"a", ".", "b", "a", "x", "b">> }

PatternTexts == SeqsUpTo(TextChars, MaxTextLen) \cup NamedTexts

\* What a separator or a pattern is typed from: characters, a regex character
\* among them, and the wildcard token.
PatternPieces == {<<"a">>, <<"b">>, <<".">>, WildcardToken}

RECURSIVE Flatten(_)
Flatten(q) == IF q = <<>> THEN <<>> ELSE Head(q) \o Flatten(Tail(q))

NamedPatterns ==
    { <<"a">> \o WildcardToken \o <<"b">>,
      <<"(">> \o WildcardToken \o <<")">>,
      <<"(", "a", ")">> \o WildcardToken \o <<".">> \o WildcardToken,
      <<".">> \o WildcardToken \o <<".">>,
      <<"%", "w", "%", "w", "%">> }

Patterns ==
    {Flatten(q) : q \in SeqsUpTo(PatternPieces, MaxPatternPieces)} \cup NamedPatterns

\* Replacements: plain text, the whole match in brackets, the captures swapped.
Replacements ==
    { <<"-">>, <<"[", "$", "&", "]">>, <<"<", "$", "2", ";", "$", "1", ">">> }

PatternInvocations ==
    {Invocation(PSTransformers[1], <<p>>) : p \in Patterns}
      \cup {Invocation(PSTransformers[2], <<p, r>>) : p \in Patterns, r \in Replacements}

InitPattern ==
    /\ ViewIdle
    /\ CodecIdle
    /\ applyV \in {Str(s) : s \in PatternTexts}
    /\ applyT \in PatternInvocations
    /\ applyR = <<>>

SpecPattern == InitPattern /\ [][CallTransformerFunc]_vars

\* Properties of split and replace, checked under SpecPattern.

IsSplit == applyT.Transformer = PSTransformers[1]

IsReplace == applyT.Transformer = PSTransformers[2]

\* The separator of split, the pattern of replace.
PatternOf == applyT.Arguments[1]

\* The strings of an array of strings.
Texts(v) == [j \in 1..Len(v.e) |-> v.e[j].s]

ExampleSeparator == <<"a", "%", "w", "%", "b">>

ExampleText == <<"a", "x", "x", "x", "b", "-", "a", "y", "b">>

\* The pieces of v from offset p on, when every separator runs from an 'a' to
\* the nearest 'b' after it.
RECURSIVE MinimalSpans(_, _)
MinimalSpans(v, p) ==
    LET closes(q) == {k \in (q + 2)..Len(v) : v[k] = "b"}
        starts    == {q \in p..(Len(v) - 1) : v[q + 1] = "a" /\ closes(q) # {}}
        q         == CHOOSE x \in starts : \A y \in starts : x <= y
        e         == CHOOSE x \in closes(q) : \A y \in closes(q) : x <= y
    IN  IF starts = {} THEN <<Substring(v, p, Len(v))>>
        ELSE <<Substring(v, p, q)>> \o MinimalSpans(v, e)

\* C18 as stated: split with separator 'a%w%b' on 'axxxb-ayb' produces
\* ['', '-', 'yb'].
C18_SplitExample ==
    (Applied /\ IsSplit /\ PatternOf = ExampleSeparator /\ applyV.s = ExampleText) =>
        /\ applyR[1].ok
        /\ Texts(applyR[1].v) = << <<>>, <<"-">>, <<"y", "b">> >>

\* C18, amended: split with separator 'a%w%b' splits at every occurrence of the
\* separator, the wildcard taking the shortest span (up to the nearest 'b');
\* on 'axxxb-ayb' it splits at both occurrences and produces ['', '-', ''].
C18_LazySplit ==
    (Applied /\ IsSplit /\ PatternOf = ExampleSeparator) =>
        \A r \in {applyR[1]} :
            /\ r.ok
            /\ IsArray(r.v)
            /\ Texts(r.v) = MinimalSpans(applyV.s, 0)
            /\ (applyV.s = ExampleText) => (Texts(r.v) = << <<>>, <<"-">>, <<>> >>)

\* 'axxxb-ayb' has been split by 'a%w%b' into ['', '-', ''].
C18_Witness ==
    /\ Applied
    /\ IsSplit
    /\ PatternOf = ExampleSeparator
    /\ applyV.s = ExampleText
    /\ Texts(applyR[1].v) = << <<>>, <<"-">>, <<>> >>

\* The separator or pattern as it is typed: its wildcard tokens from the left
\* and, between them, its characters.
RECURSIVE Typed(_)
Typed(p) ==
    IF p = <<>> THEN <<>>
    ELSE IF OccursAt(p, WildcardToken, 0)
    THEN <<[wild |-> TRUE, c |-> ""]>> \o Typed(SubSeq(p, 4, Len(p)))
    ELSE <<[wild |-> FALSE, c |-> p[1]]>> \o Typed(Tail(p))

HasWildcard(p) == \E j \in 1..Len(Typed(p)) : Typed(p)[j].wild

\* Every way the typed items i.. can cover v from offset pos: a character covers
\* itself and nothing else, a wildcard covers any span.  A way is the offset it
\* ends at and the spans of its wildcards, from the left.
RECURSIVE Ways(_, _, _, _)
Ways(items, i, v, pos) ==
    IF i > Len(items) THEN {[end |-> pos, caps |-> <<>>]}
    ELSE IF ~items[i].wild
    THEN IF pos < Len(v) /\ v[pos + 1] = items[i].c
         THEN Ways(items, i + 1, v, pos + 1) ELSE {}
    ELSE UNION { { [end |-> w.end, caps |-> <<Substring(v, pos, k)>> \o w.caps] :
                     w \in Ways(items, i + 1, v, k) } : k \in pos..Len(v) }

\* The way w comes before the way u: at the first wildcard where their spans
\* differ, w's is the longer one (greedy) or the shorter one (lazy).
Preferred(w, u, greedy) ==
    LET differ == {j \in 1..Len(w.caps) : Len(w.caps[j]) # Len(u.caps[j])}
        j      == CHOOSE x \in differ : \A y \in differ : x <= y
    IN  differ # {} /\ (IF greedy THEN Len(w.caps[j]) > Len(u.caps[j])
                        ELSE Len(w.caps[j]) < Len(u.caps[j]))

Best(W, greedy) == CHOOSE w \in W : \A u \in W \ {w} : Preferred(w, u, greedy)

\* The leftmost match at or after offset from.
Leftmost(items, v, from, greedy) ==
    LET hits == {q \in from..Len(v) : Ways(items, 1, v, q) # {}}
        q    == CHOOSE x \in hits : \A y \in hits : x <= y
    IN  IF hits = {} THEN [ok |-> FALSE, index |-> 0, end |-> 0, caps |-> <<>>]
        ELSE LET w == Best(Ways(items, 1, v, q), greedy)
             IN  [ok |-> TRUE, index |-> q, end |-> w.end, caps |-> w.caps]

\* The replacement with $& and $1..$9 filled in.
RECURSIVE Expand(_, _, _)
Expand(tmpl, matched, caps) ==
    IF tmpl = <<>> THEN <<>>
    ELSE IF Len(tmpl) >= 2 /\ tmpl[1] = "$" /\ tmpl[2] = "&"
    THEN matched \o Expand(SubSeq(tmpl, 3, Len(tmpl)), matched, caps)
    ELSE IF Len(tmpl) >= 2 /\ tmpl[1] = "$" /\ IsDigit(tmpl[2])
            /\ DigitValue(tmpl[2]) \in 1..Len(caps)
    THEN caps[DigitValue(tmpl[2])] \o Expand(SubSeq(tmpl, 3, Len(tmpl)), matched, caps)
    ELSE <<tmpl[1]>> \o Expand(Tail(tmpl), matched, caps)

\* v with every match of the items, found from the left without overlap, replaced.
RECURSIVE ReplacedFrom(_, _, _, _, _)
ReplacedFrom(items, v, repl, done, from) ==
    LET m == Leftmost(items, v, from, TRUE)
    IN  IF ~m.ok THEN Substring(v, Min(done, Len(v)), Len(v))
        ELSE Substring(v, done, m.index)
               \o Expand(repl, Substring(v, m.index, m.end), m.caps)
               \o ReplacedFrom(items, v, repl, m.end,
                               IF m.end = m.index THEN m.end + 1 ELSE m.end)

\* The pieces of v between the lazy matches of the items; a match that ends
\* where the last one ended does not split.
RECURSIVE PiecesFrom(_, _, _, _)
PiecesFrom(items, v, p, q) ==
    IF q >= Len(v) THEN <<Substring(v, p, Len(v))>>
    ELSE LET W == Ways(items, 1, v, q)
         IN  IF W = {} \/ Best(W, FALSE).end = p THEN PiecesFrom(items, v, p, q + 1)
             ELSE <<Substring(v, p, q)>> \o PiecesFrom(items, v, Best(W, FALSE).end,
                                                       Best(W, FALSE).end)

Pieces(items, v) ==
    IF v = <<>> THEN (IF Ways(items, 1, v, 0) # {} THEN <<>> ELSE <<v>>)
    ELSE PiecesFrom(items, v, 0, 0)

RECURSIVE JoinTexts(_, _)
JoinTexts(q, sep) ==
    IF q = <<>> THEN <<>>
    ELSE IF Len(q) = 1 THEN q[1]
    ELSE q[1] \o sep \o JoinTexts(Tail(q), sep)

\* The pieces are v cut at the occurrences of the text sep, taken from the left:
\* they join back to v and sep occurs in no piece, nor across a piece and the
\* separator after it.  The empty separator cuts between all characters.
IsLiteralSplit(pieces, v, sep) ==
    IF sep = <<>> THEN pieces = [j \in 1..Len(v) |-> <<v[j]>>]
    ELSE /\ pieces # <<>>
         /\ JoinTexts(pieces, sep) = v
         /\ \A j \in 1..Len(pieces) :
                LET span == IF j < Len(pieces) THEN pieces[j] \o sep ELSE pieces[j]
                IN  \A q \in 0..(Len(span) - Len(sep)) :
                        OccursAt(span, sep, q) => (j < Len(pieces) /\ q = Len(pieces[j]))

\* What is left of v around the occurrences of the text pat: the pieces of the
\* literal split, with an empty piece at both ends for the empty pattern.
Around(v, pat) ==
    IF pat = <<>> THEN << <<>> >> \o [j \in 1..Len(v) |-> <<v[j]>>] \o << <<>> >>
    ELSE StringSplit(v, pat)

MatchInBrackets == <<"[", "$", "&", "]">>

\* C19: in split and replace a character of the separator or pattern that is no
\* part of a %w% token matches itself only.  Without a wildcard the argument is
\* a literal text: split cuts at its occurrences and replace replaces them all.
\* With a wildcard the regex characters are escaped, so the pieces of split and
\* the matches replace marks are those of the typed text, '.' matching '.' only.
C19_LiteralCharacters ==
    Applied =>
        \A r \in {applyR[1]}, v \in {applyV.s}, pat \in {PatternOf} :
            /\ r.ok
            /\ (IsSplit /\ ~HasWildcard(pat)) =>
                   IsLiteralSplit(Texts(r.v), v, pat)
            /\ (IsReplace /\ ~HasWildcard(pat)) =>
                   /\ IsLiteralSplit(StringSplit(v, pat), v, pat)
                   /\ r.v.s = JoinTexts(Around(v, pat),
                                        Expand(applyT.Arguments[2], pat, <<>>))
            /\ (IsSplit /\ HasWildcard(pat)) =>
                   Texts(r.v) = Pieces(Typed(pat), v)
            /\ (IsReplace /\ HasWildcard(pat) /\ applyT.Arguments[2] = MatchInBrackets) =>
                   r.v.s = ReplacedFrom(Typed(pat), v, MatchInBrackets, 0, 0)

\* 'a.bab' has been split by '.%w%.': without a second '.' in the text it stays
\* whole, although '.a' would match were '.' any character.
C19_Witness ==
    /\ Applied
    /\ IsSplit
    /\ PatternOf = <<".">> \o WildcardToken \o <<".">>
    /\ applyV.s = <<"a", ".", "b", "a", "x", "b">>
    /\ Texts(applyR[1].v) = <<applyV.s>>

CapturesSwapped == <<"<", "$", "2", ";", "$", "1", ">">>

\* C20: in replace with a pattern holding %w%, the k-th token from the left is
\* capture group k, literal parentheses in the pattern notwithstanding; every
\* wildcard takes the longest span it can, and every match found from the left
\* without overlap is replaced.
C20_GreedyCaptures ==
    (Applied /\ IsReplace /\ HasWildcard(PatternOf)) =>
        \A r \in {applyR[1]} :
            /\ r.ok
            /\ IsString(r.v)
            /\ r.v.s = ReplacedFrom(Typed(PatternOf), applyV.s, applyT.Arguments[2], 0, 0)

\* '(a)b.a' has been replaced with pattern '(a)%w%.%w%' and '<$2;$1>': the
\* parentheses of the pattern are text, the first capture is 'b' and the second
\* is 'a'.
C20_Witness ==
    /\ Applied
    /\ IsReplace
    /\ PatternOf = <<"(", "a", ")">> \o WildcardToken \o <<".">> \o WildcardToken
    /\ applyT.Arguments[2] = CapturesSwapped
    /\ applyV.s = <<"(", "a", ")", "b", ".", "a">>
    /\ applyR[1].v.s = <<"<", "a", ";", "b", ">">>

-----------------------------------------------------------------------------
\* slice.Func on texts and bounds.

MaxSliceLen == 4

\* The first n letters.
LettersOf(n) == [j \in 1..n |-> ElementNames[j]]

\* What is typed as Start and End: nothing, integers inside and past the text,
\* negative ones, a signed one, one after a blank, one followed by a letter or
\* a fraction, and a word.
BoundTexts ==
    { <<>>, <<"0">>, <<"1">>, <<"2">>, <<"4">>, <<"9">>, <<"-", "1">>, <<"-", "3">>,
      <<"-", "9">>, <<"+", "2">>, <<" ", "1">>, <<"2", "a">>, <<"1", ".", "5">>,
      <<"x">> }

\* The arguments of an applied slice: two from the inputs of the transformer,
\* fewer from a token of the URL.
SliceArguments ==
    {<<>>} \cup {<<s>> : s \in BoundTexts} \cup {<<s, e>> : s \in BoundTexts, e \in BoundTexts}

InitSlice ==
    /\ ViewIdle
    /\ CodecIdle
    /\ applyV \in {Str(LettersOf(n)) : n \in 0..MaxSliceLen}
    /\ applyT \in {Invocation(PSTransformers[6], a) : a \in SliceArguments}
    /\ applyR = <<>>

SpecSlice == InitSlice /\ [][CallTransformerFunc]_vars

\* Properties of slice, checked under SpecSlice.

\* The bound a text denotes: the integer it starts with, after blanks and a
\* sign, and 0 when it starts with none.
BoundOf(text) ==
    LET blanks == {j \in 0..Len(text) : \A i \in 1..j : text[i] \in {" ", "\n"}}
        b      == CHOOSE x \in blanks : \A y \in blanks : x >= y
        signed == b < Len(text) /\ text[b + 1] \in {"-", "+"}
        from   == IF signed THEN b + 1 ELSE b
        ends   == {j \in from..Len(text) : \A i \in (from + 1)..j : IsDigit(text[i])}
        to     == CHOOSE x \in ends : \A y \in ends : x >= y
        n      == DecimalValue(SubSeq(text, from + 1, to))
    IN  IF signed /\ text[b + 1] = "-" THEN 0 - n ELSE n

\* The k-th bound of the applied slice; a bound that is not supplied parses as
\* no integer.
BoundAt(k) == IF k <= Len(applyT.Arguments) THEN BoundOf(applyT.Arguments[k]) ELSE 0

\* The offset a bound stands for in a text of len characters.
OffsetOf(bound, len) ==
    IF bound < 0 THEN (IF len + bound < 0 THEN 0 ELSE len + bound)
    ELSE IF bound > len THEN len ELSE bound

\* C21: slice returns the characters of the text from the offset of Start up
\* to, not including, the offset of End, a negative bound counting from the
\* end and a bound that does not parse as an integer counting as 0; it never
\* raises.
C21_StringSlice ==
    (Applied /\ applyT.Transformer = PSTransformers[6]) =>
        \A r \in {applyR[1]}, lo \in {OffsetOf(BoundAt(1), Len(applyV.s))},
           hi \in {OffsetOf(BoundAt(2), Len(applyV.s))} :
            /\ r.ok
            /\ IsString(r.v)
            /\ r.v.s = [j \in 1..(IF hi > lo THEN hi - lo ELSE 0) |-> applyV.s[lo + j]]

\* 'abcd' has been sliced with Start 'x' and End '-1' to 'abc': the start that
\* parses as no integer is 0.
C21_Witness ==
    /\ Applied
    /\ applyT = Invocation(PSTransformers[6], << <<"x">>, <<"-", "1">> >>)
    /\ applyV.s = <<"a", "b", "c", "d">>
    /\ applyR[1].v.s = <<"a", "b", "c">>

-----------------------------------------------------------------------------
\* Properties of the applied pipeline, checked under Spec.

\* C22: every applied transformer holds as many arguments as its definition
\* declares in Args.
C22_ArgumentsLength ==
    \A j \in 1..Len(AppliedTransformers) :
        Len(AppliedTransformers[j].Arguments) = Len(AppliedTransformers[j].Transformer.Args)

\* The view with one text to type and four of the definitions to append: the
\* pipeline and the URL, whatever the input.
NextPipeline ==
    \/ Mounted
    \/ SetInputValue(<<"b", ",", "a">>)
    \/ \E tf \in {PSTransformers[k] : k \in {1, 3, 8, 10}} :
          \E args \in UIArguments(tf) : addTransformer(tf, args)
    \/ \E k \in 1..Len(AppliedTransformers) :
          \E args \in UIArguments(AppliedTransformers[k].Transformer)
                        \cup {AppliedTransformers[k].Arguments} :
             updateTransformer(k, args)
    \/ \E k \in 1..Len(AppliedTransformers) : deleteTransformer(k)
    \/ ClearApplied
    \/ WatchApplied

SpecPipeline == Init /\ [][NextPipeline]_vars

\* The properties that follow are checked under SpecPipeline.

\* q without its k-th entry.
RemoveAt(q, k) == SubSeq(q, 1, k - 1) \o SubSeq(q, k + 1, Len(q))

-----------------------------------------------------------------------------
\* Further properties of split, checked under SpecPattern.

\* The offsets at which a match of the items that starts at offset pos can end.
EndsOf(items, v, pos) == {w.end : w \in Ways(items, 1, v, pos)}

\* From offset pos on, v is the pieces in order with one match of the items
\* between each two neighbours and nothing else.
RECURSIVE Interleaved(_, _, _, _)
Interleaved(pieces, items, v, pos) ==
    /\ pieces # <<>>
    /\ OccursAt(v, pieces[1], pos)
    /\ IF Len(pieces) = 1 THEN pos + Len(pieces[1]) = Len(v)
       ELSE \E e \in EndsOf(items, v, pos + Len(pieces[1])) :
                Interleaved(Tail(pieces), items, v, e)

\* C24: for a separator holding %w%, literal parentheses or not, the array
\* split returns holds only the text between the matches of the separator: the
\* pieces and the matches between them make up the input, and no matched or
\* captured text is an element.
C24_OnlyTextBetween ==
    (Applied /\ IsSplit /\ HasWildcard(PatternOf)) =>
        \A r \in {applyR[1]} :
            /\ r.ok
            /\ IsArray(r.v)
            /\ \A j \in 1..Len(r.v.e) : IsString(r.v.e[j])
            /\ \/ Interleaved(Texts(r.v), Typed(PatternOf), applyV.s, 0)
               \/ applyV.s = <<>> /\ r.v.e = <<>>

\* '(a)(b)' has been split by '(%w%)' into three empty pieces: neither 'a' nor
\* 'b', which the wildcard covered, is among them.
C24_Witness ==
    /\ Applied
    /\ IsSplit
    /\ PatternOf = <<"(">> \o WildcardToken \o <<")">>
    /\ applyV.s = <<"(", "a", ")", "(", "b", ")">>
    /\ Texts(applyR[1].v) = << <<>>, <<>>, <<>> >>

-----------------------------------------------------------------------------
\* Properties of reverse and sort as calls, checked under SpecSort.

\* The row as it was handed to the Func.
Handed == applyR[1].calls[1]

\* C25: reverse and sort work on a copy: once the call has returned, the array
\* they received holds the elements it held, in the same order; the result of
\* reverse has at index i the element the input has at index n-1-i, and
\* reversing the result gives the input again.
C25_OnACopy ==
    (Applied /\ applyT.Transformer \in {PSTransformers[8], PSTransformers[9]}) =>
        \A r \in {applyR[1]} :
            /\ r.ok
            /\ applyV = Handed
            /\ (applyT.Transformer = PSTransformers[8]) =>
                   /\ Len(r.v.e) = Len(Handed.e)
                   /\ \A i \in 0..(Len(Handed.e) - 1) :
                          r.v.e[i + 1] = Handed.e[(Len(Handed.e) - 1 - i) + 1]
                   /\ Func(PSTransformers[8], r.v, <<>>).v = Handed

\* ['10','2','1'] has been reversed to ['1','2','10'] and is itself as it was.
C25_Witness ==
    /\ Applied
    /\ applyT.Transformer = PSTransformers[8]
    /\ RowTexts(applyV.e) = << <<"1", "0">>, <<"2">>, <<"1">> >>
    /\ RowTexts(applyR[1].v.e) = << <<"1">>, <<"2">>, <<"1", "0">> >>

-----------------------------------------------------------------------------
\* A property of the catalog as decodeATL uses it, checked under SpecCodec.

\* The places of the catalog whose ID is id.
PlacesOf(id) == {k \in 1..Len(PSTransformers) : PSTransformers[k].ID = id}

\* C26: no two definitions of the catalog share an ID, so the definition
\* decodeATL finds for the ID of a record is the only one with that ID; and
\* every definition declares in Args as many arguments as its Func takes after
\* the value.
C26_CatalogKeys ==
    /\ \A k \in 1..Len(PSTransformers) :
           /\ PlacesOf(PSTransformers[k].ID) = {k}
           /\ Len(PSTransformers[k].Args) = Len(FuncParameters(PSTransformers[k]))
    /\ (Decoded /\ atlR[1].ok) =>
           \A j \in 1..Len(atlR[1].v) :
               /\ Cardinality(PlacesOf(atlR[1].v[j].Transformer.ID)) = 1
               /\ \A k \in PlacesOf(atlR[1].v[j].Transformer.ID) :
                      atlR[1].v[j].Transformer = PSTransformers[k]
               /\ Len(atlR[1].v[j].Transformer.Args)
                      = Len(FuncParameters(atlR[1].v[j].Transformer))

\* A token with a join and a split has been decoded to these two definitions.
C26_Witness ==
    /\ Decoded
    /\ atlR[1].ok
    /\ Len(atlR[1].v) = 2
    /\ atlR[1].v[1].Transformer = PSTransformers[10]
    /\ atlR[1].v[2].Transformer = PSTransformers[1]

-----------------------------------------------------------------------------
\* The view with a fixed input and a pipeline that only grows.

MaxGated == 4

\* The page is mounted without a token and the input has been typed.
InitGated ==
    /\ InputValue \in {<<",", "a">>, <<"a", ",", "b">>}
    /\ AppliedTransformers = <<>>
    /\ alerts = <<>>
    /\ queryT = NoQuery
    /\ watchPending = FALSE
    /\ mounted = TRUE
    /\ ApplyIdle
    /\ CodecIdle

\* addTransformer for a transformer the template offers.
AppendOffered(tf, args) ==
    /\ Idle
    /\ Len(AppliedTransformers) < MaxGated
    /\ Offered(tf)
    /\ AppliedTransformers' = Append(AppliedTransformers, Invocation(tf, args))
    /\ watchPending' = TRUE
    /\ UNCHANGED <<InputValue, alerts, queryT, mounted>>
    /\ UNCHANGED <<applyVars, codecVars>>

NextGated ==
    \/ \E args \in {<< <<",">> >>, << <<>> >>} : AppendOffered(PSTransformers[1], args)
    \/ AppendOffered(PSTransformers[7], << <<"1", ",", "5">> >>)
    \/ AppendOffered(PSTransformers[8], <<>>)
    \/ AppendOffered(PSTransformers[10], << <<>> >>)
    \/ WatchApplied

SpecGated == InitGated /\ [][NextGated]_vars

\* Properties of the values the chain produces.

\* Within each array all elements are strings or all are arrays.
RECURSIVE Homogeneous(_)
Homogeneous(v) ==
    \/ IsString(v)
    \/ /\ IsArray(v)
       /\ \/ \A j \in 1..Len(v.e) : IsString(v.e[j])
          \/ \A j \in 1..Len(v.e) : IsArray(v.e[j])
       /\ \A j \in 1..Len(v.e) : Homogeneous(v.e[j])

\* C27: every value the chain of applied transformers produces from a string
\* input is homogeneous.
C27_Homogeneous ==
    \A r \in {ComputeOutputValue(InputValue, AppliedTransformers)} :
        /\ Homogeneous(r.v)
        /\ \A j \in 1..Len(r.steps) : Homogeneous(r.steps[j].entered)

TypeMismatch == "applyTransformer: a targeted array transformer cannot be applied on string"

\* C28: with a fixed input that is not empty and a pipeline built by appending
\* only, an array-targeted transformer only while the output is an array, no
\* step fails because an array-targeted transformer met a string.
C28_GatedNeverMismatches ==
    \A r \in {ComputeOutputValue(InputValue, AppliedTransformers)} :
        \A j \in 1..Len(r.alerts) : r.alerts[j].error # TypeMismatch

\* C29: join, applied through applyTransformer to a flat array of strings, the
\* empty array included, returns a string.
C29_JoinReturnsString ==
    (/\ Applied
     /\ applyT.Transformer = PSTransformers[10]
     /\ IsArray(applyV)
     /\ \A j \in 1..Len(applyV.e) : IsString(applyV.e[j])) =>
        /\ applyR[1].ok
        /\ IsString(applyR[1].v)

-----------------------------------------------------------------------------
\* A property of the URL, checked under SpecPipeline.

\* C30: every change of the applied pipeline (append, update, remove, clear,
\* load from a token) is queued for the watcher; once the watcher has run, the
\* URL has no parameter t if the pipeline is empty and else the token of the
\* pipeline, which decodes to it; neither changes until the next change is
\* queued.
C30_UrlFollows ==
    [][/\ (AppliedTransformers' # AppliedTransformers) => watchPending'
       /\ (watchPending /\ ~watchPending') =>
              /\ queryT'.present <=> Len(AppliedTransformers') > 0
              /\ queryT'.present =>
                     /\ queryT'.t = encodeATL(AppliedTransformers')
                     /\ \A r \in {decodeATL(queryT'.t)} :
                            r.ok /\ r.v = AppliedTransformers'
       /\ (~watchPending /\ ~watchPending') =>
              (queryT' = queryT /\ AppliedTransformers' = AppliedTransformers)]_vars

\* The page was opened with a token that failed to load; a transformer has
\* been appended since and the watcher has put the pipeline's token in the URL.
C30_Witness ==
    /\ mounted
    /\ ~watchPending
    /\ Len(alerts) = 1
    /\ alerts[1].kind = "load"
    /\ Len(AppliedTransformers) = 1
    /\ queryT = Query(encodeATL(AppliedTransformers))

=============================================================================
